---------------------------- MODULE Spec2Model ----------------------------
(***************************************************************************)
(* Verification model of the institutional RWA demo repository:            *)
(*   - ForteSDKManager (sdk.ts) and the shipped policy file,               *)
(*   - ZKPretIntegrationManager (zkpret-integration/ZKPretAdapter.ts),     *)
(*   - the Solidity ZKPretAdapter, InstitutionalAssetFactory and           *)
(*     PyusdCrossBorderFinance contracts,                                  *)
(*   - the three cross-border limit tables.                                *)
(* Each subsystem has its own specification (SpecSdk, SpecZk, ...); the    *)
(* variables of the other subsystems stay at their initial value.          *)
(***************************************************************************)
EXTENDS Integers, Sequences, FiniteSets, TLC

VARIABLES
    \* ForteSDKManager
    policyRegistry,     \* Map policyId -> parsed policy (its rules array)
    txData,             \* the transaction data submitted by the caller
    lastCall,           \* the last SDK call and what it returned / threw
    \* ZKPretIntegrationManager (TypeScript), pure functions
    zkData,             \* the asset data handed to the manager
    zkCall,             \* the last manager call and its return value
    \* cross-border limit tables
    limitCall,
    \* ZKPretAdapter (Solidity)
    owner,
    authorizedVerifiers,
    gleifVerifications,
    bpmnCompliances,
    actuarialRiskScores,
    dcsaDocumentVerifications,
    adapterCall,        \* the last adapter call and what it returned / reverted
    \* InstitutionalAssetFactory (Solidity) and the InstitutionalAsset contracts it deploys
    zkPretAdapter,
    institutionalAssets,
    leiToAsset,
    allAssets,
    totalAssetsCreated,
    assetContracts,     \* deployed address -> storage of the InstitutionalAsset there
    factoryCall,        \* the last factory call, its sender and what it returned / reverted
    \* PyusdCrossBorderFinance (Solidity) and the PYUSD token it holds
    trades,
    userTrades,
    exchangeRates,
    nextTradeId,
    pyusdBalances,      \* PYUSD balanceOf
    pyusdAllowances,    \* PYUSD allowance[owner][spender]
    tradeLog,           \* per trade, the calls that succeeded for it (history)
    escrowCall,         \* the last escrow call and whether it reverted
    \* RealForteSDKManager (TypeScript)
    realCall,           \* the last checkRules call: configuration, data and result
    prevRealCall,       \* the checkRules call before it
    \* CloudForteIntegrationDemo (TypeScript)
    cloudCall,          \* the last callForteCloudAPI call and what it returned / threw
    \* one deployed InstitutionalAsset (Solidity)
    tokenStorage,       \* its storage
    assetCall,          \* the last call of it and whether it reverted
    files,              \* the injector's file system: path -> text
    originalFile,       \* the contract file's text before any injection
    injectorCall        \* the injector's last call and whether it threw

sdkVars == <<policyRegistry, txData, lastCall>>
zkVars == <<zkData, zkCall>>
limitVars == <<limitCall>>
registryVars == <<gleifVerifications, bpmnCompliances, actuarialRiskScores, dcsaDocumentVerifications>>
adapterVars == <<owner, authorizedVerifiers, registryVars, adapterCall>>
factoryVars == <<zkPretAdapter, institutionalAssets, leiToAsset, allAssets, totalAssetsCreated,
                 assetContracts, factoryCall>>
tokenVars == <<pyusdBalances, pyusdAllowances>>
escrowVars == <<trades, userTrades, exchangeRates, nextTradeId, tokenVars, tradeLog, escrowCall>>
chainVars == <<adapterVars, factoryVars, escrowVars>>
realVars == <<realCall, prevRealCall>>
cloudVars == <<cloudCall>>
assetVars == <<tokenStorage, assetCall>>
injectorVars == <<files, originalFile, injectorCall>>
otherVars == <<realVars, cloudVars, assetVars, injectorVars>>
vars == <<sdkVars, zkVars, limitVars, chainVars, otherVars>>

\* JavaScript `undefined` for an absent field (strings), absent numbers are 0:
\* every numeric read in the code is `x || y`, which treats 0 and undefined alike.
UNDEFINED == "undefined"

----------------------------------------------------------------------------
(* String literals used as inputs, with the two facts the code reads from  *)
(* them: String.length and String.includes(<marker>).                      *)

LEI_APPLE == "HWUPKR0MPOU8FGXBT394"
LEI_LONG == "RESTRICTED000000000000"
LEI_MARKED == "INVALID0000000000000"
DESC_OK == "90-day supplier invoice from verified vendor"
DESC_UNVERIFIED == "Unverified supplier invoice"
DESC_SHORT == "invoice"
HASH_OK == "0x1234567890abcdef1234567890abcdef12345678"
HASH_ZERO == "0x0000000000000000000000000000000000000000"
ADDR_SANCTIONED == "0x1111111111111111111111111111111111111111"
ADDR_CLEAN == "0x70997970C51812dc3A010C7d01b50e0d17dc79C8"

StringLength(s) ==
    CASE s = LEI_APPLE -> 20
      [] s = LEI_LONG -> 22
      [] s = LEI_MARKED -> 20
      [] s = DESC_OK -> 44
      [] s = DESC_UNVERIFIED -> 27
      [] s = DESC_SHORT -> 7
      [] s = "" -> 0
      [] OTHER -> 42

StringIncludes(s, marker) ==
    \/ (marker = "INVALID" /\ s = LEI_MARKED)
    \/ (marker = "Unverified" /\ s = DESC_UNVERIFIED)

\* String.prototype.toLowerCase on the addresses used
ToLowerCase(s) == IF s = ADDR_CLEAN THEN "0x70997970c51812dc3a010c7d01b50e0d17dc79c8" ELSE s

\* JavaScript `a || b` on strings: '' and undefined are falsy
OrElse(a, b) == IF a = UNDEFINED \/ a = "" THEN b ELSE a
\* JavaScript `a || b` on numbers: 0 (and undefined, modelled as 0) is falsy
NumOr(a, b) == IF a = 0 THEN b ELSE a

Min(a, b) == IF a < b THEN a ELSE b
Max(a, b) == IF a > b THEN a ELSE b

----------------------------------------------------------------------------
(* ZKPretIntegrationManager (TypeScript)                                   *)

verifyGLEIF(lei) ==
    [verified |-> StringLength(lei) = 20 /\ ~StringIncludes(lei, "INVALID")]

verifyBPMNCompliance(assetDescription) ==
    [verified |-> StringLength(assetDescription) > 10
                  /\ ~StringIncludes(assetDescription, "Unverified")]

assessACTUSRisk(assetData) ==
    LET riskScore == IF assetData.interestRate > 1500 THEN 800 ELSE 300
    IN [verified |-> riskScore <= 500, score |-> riskScore]

verifyDCSADocuments(documentHash, tradeDocuments) ==
    [verified |-> documentHash # HASH_ZERO /\ Len(tradeDocuments) > 0]

creditScoreMap(rating) ==
    CASE rating = "AAA" -> 20 [] rating = "AA" -> 19 [] rating = "A" -> 18
      [] rating = "BBB" -> 15 [] rating = "BB" -> 12 [] rating = "B" -> 8
      [] rating = "CCC" -> 5 [] rating = "CC" -> 3 [] rating = "C" -> 1
      [] rating = "D" -> 0
      [] OTHER -> 0     \* undefined, falsy like 0

calculateMetadataScore(assetData) ==
    LET gleifScore == IF verifyGLEIF(OrElse(assetData.legalEntityIdentifier, "")).verified
                      THEN 25 ELSE 0
        bpmnScore == IF verifyBPMNCompliance(OrElse(assetData.assetDescription, "")).verified
                     THEN 20 ELSE 10
        actuarialScore ==
            Max(0, 20 - ((NumOr(assessACTUSRisk(assetData).score, 500) * 20) \div 1000))
        dcsaScore == IF verifyDCSADocuments(OrElse(assetData.documentHash, ""),
                                            assetData.tradeDocuments).verified
                     THEN 15 ELSE 8
        financialScore == NumOr(creditScoreMap(assetData.creditRating), 10)
    IN [gleifScore |-> gleifScore, bpmnScore |-> bpmnScore,
        actuarialScore |-> actuarialScore, dcsaScore |-> dcsaScore,
        financialScore |-> financialScore,
        totalScore |-> gleifScore + bpmnScore + actuarialScore + dcsaScore + financialScore]

assetTypeMultipliers(assetType) ==
    CASE assetType = "SUPPLY_CHAIN_INVOICE" -> 1000
      [] assetType = "EQUIPMENT_FINANCE" -> 10000
      [] assetType = "TRADE_FINANCE" -> 5000
      [] assetType = "WORKING_CAPITAL" -> 2000
      [] assetType = "COMMERCIAL_REAL_ESTATE" -> 25000
      [] assetType = "CORPORATE_BONDS" -> 1000
      [] assetType = "STRUCTURED_PRODUCTS" -> 50000
      [] OTHER -> 1000

calculateOptimalFractions(principalAmount, assetType) ==
    LET multiplier == assetTypeMultipliers(assetType)
        optimalCount == Max(10, Min(10000, principalAmount \div multiplier))
        minimumSize == principalAmount \div optimalCount
    IN [optimalCount |-> optimalCount, minimumSize |-> minimumSize,
        maximumSize |-> minimumSize * 10,
        \* 1.5 / 1.0 in the source, kept here in tenths
        liquidityFactor |-> IF optimalCount >= 100 /\ optimalCount <= 5000 THEN 15 ELSE 10]

checkMetadataThreshold(assetData) ==
    LET currentScore == calculateMetadataScore(assetData).totalScore
        base == IF assetData.principalAmount >= 10000000 THEN 95
                ELSE IF assetData.principalAmount >= 5000000 THEN 85
                ELSE IF assetData.principalAmount >= 1000000 THEN 75
                ELSE 70
        plusStructured == IF assetData.assetType = "STRUCTURED_PRODUCTS" THEN base + 5 ELSE base
        plusTrade == IF assetData.assetType = "TRADE_FINANCE"
                     THEN plusStructured + 3 ELSE plusStructured
        requiredScore == Min(100, plusTrade)
    IN [meetsThreshold |-> currentScore >= requiredScore,
        currentScore |-> currentScore, requiredScore |-> requiredScore]

----------------------------------------------------------------------------
(* policies/institutional-rwa-complete.json as JSON.parse reads it.  The   *)
(* objects of RULE_13 and RULE_14 sit inside the "and" array of RULE_01's  *)
(* conditions (lines 20-85 of the file), between its two conditions, so    *)
(* the top-level "rules" array holds twelve objects.                       *)

Rule(id, action, conditions) == [ruleId |-> id, action |-> action, conditions |-> conditions]

POLICY_SHIPPED == "policies/institutional-rwa-complete.json"
\* the same file with its top-level rules array written in the opposite order
POLICY_REORDERED == "policies/institutional-rwa-complete.reordered.json"
PolicyFiles == {POLICY_SHIPPED, POLICY_REORDERED}

shippedRules ==
    << Rule("RULE_01", "DENY", <<"requireGLEIFVerification", "RULE_13", "RULE_14", "checkKYCLevel">>),
       Rule("RULE_02", "DENY", <<"checkOFACSanctions", "checkRealtimeSanctions">>),
       Rule("RULE_03", "DENY", <<"checkCrossBorderSanctions", "validateJurisdiction">>),
       Rule("RULE_04", "DENY", <<"zkPretGLEIFVerification", "validateLEIFormat", "checkLEIStatus">>),
       Rule("RULE_05", "DENY", <<"zkPretBPMNVerification", "validateBusinessProcess">>),
       Rule("RULE_06", "DENY", <<"zkPretACTUSRiskScore", "validateLiquidityScore", "checkStressTesting">>),
       Rule("RULE_07", "DENY", <<"zkPretDCSAVerification", "validateTradeDocuments">>),
       Rule("RULE_08", "ADJUST", <<"calculateOptimalFractions", "validateFractionSize">>),
       Rule("RULE_09", "WARN", <<"calculateMetadataScore", "validateGLEIFComponent", "validateBPMNComponent">>),
       Rule("RULE_10", "DENY", <<"checkMinimumFractionSize", "validateAssetTypeMinimum">>),
       Rule("RULE_11", "WARN", <<"calculateLiquidityScore", "checkSweetSpotRange">>),
       Rule("RULE_12", "DENY", <<"checkMetadataThreshold", "validatePrincipalAmountRequirements", "checkAssetTypeCompliance">>) >>

Reverse(seq) == [i \in 1..Len(seq) |-> seq[Len(seq) + 1 - i]]

\* fs.readFile + JSON.parse: the policy object (only the fields the SDK reads)
parsePolicy(policyPath) ==
    [policyName |-> "Institutional RWA Complete Compliance",
     rules |-> IF policyPath = POLICY_SHIPPED THEN shippedRules ELSE Reverse(shippedRules)]

----------------------------------------------------------------------------
(* ForteSDKManager: rule evaluation.  A rule evaluation returns            *)
(* {passed} or throws (threw = TRUE).                                      *)

Passed(b) == [passed |-> b, threw |-> FALSE]
Threw == [passed |-> FALSE, threw |-> TRUE]

evaluateRule01(data) ==
    IF OrElse(data.legalEntityIdentifier, "") = "" THEN Passed(FALSE)
    ELSE Passed(verifyGLEIF(data.legalEntityIdentifier).verified)

\* a RULE_02 check that knows no sanctioned address
evaluateRule02EmptyList(data) == Passed(TRUE)

evaluateRule02(data) ==
    Passed(~(ToLowerCase(data.recipient) \in {ADDR_SANCTIONED}))

evaluateRule03(data) == Passed(TRUE)

evaluateRule04(data) ==
    IF OrElse(data.legalEntityIdentifier, "") = ""
       \/ StringLength(data.legalEntityIdentifier) # 20
    THEN Passed(FALSE) ELSE Passed(TRUE)

\* verifyBPMNCompliance reads assetDescription.length: a TypeError when undefined
evaluateRule05(data) ==
    IF data.assetDescription = UNDEFINED THEN Threw
    ELSE Passed(verifyBPMNCompliance(data.assetDescription).verified)

evaluateRule06(data) == Passed(NumOr(assessACTUSRisk(data).score, 999) <= 500)

evaluateRule07(data) ==
    Passed(verifyDCSADocuments(data.documentHash, data.tradeDocuments).verified)

evaluateRule08(data) ==
    LET fractionParams == calculateOptimalFractions(data.principalAmount, data.assetType)
    IN Passed(fractionParams.optimalCount >= 10 /\ fractionParams.optimalCount <= 10000)

evaluateRule09(data) == Passed(calculateMetadataScore(data).totalScore >= 70)

evaluateRule10(data) ==
    LET transferAmount == NumOr(data.transferAmount, NumOr(data.minimumFractionSize, 0))
    IN Passed(transferAmount >= 500)

evaluateRule11(data) == Passed(TRUE)

evaluateRule12(data) == Passed(checkMetadataThreshold(data).meetsThreshold)

\* the simulated PYUSD price 1.001 and its band 0.995-1.005, in thousandths
evaluateRule13(data) ==
    LET pyusdAmount == NumOr(data.pyusdAmount, NumOr(data.principalAmount, 0))
        pegStable == 1001 >= 995 /\ 1001 <= 1005
        sufficientReserves == pyusdAmount <= 50000000
        meetsMininumLiquidity == pyusdAmount >= 1000000
    IN IF ~pegStable THEN Passed(FALSE)
       ELSE IF ~sufficientReserves THEN Passed(FALSE)
       ELSE IF ~meetsMininumLiquidity THEN Passed(FALSE)
       ELSE Passed(TRUE)

\* countryPairLimits[key1] || countryPairLimits[key2] || countryPairLimits['default']
countryPairLimits(a, b) ==
    CASE a = "US" /\ b = "GB" -> 100000000
      [] a = "US" /\ b = "DE" -> 100000000
      [] a = "US" /\ b = "JP" -> 75000000
      [] a = "US" /\ b = "IN" -> 50000000
      [] a = "US" /\ b = "SG" -> 100000000
      [] a = "GB" /\ b = "DE" -> 100000000
      [] a = "DE" /\ b = "JP" -> 75000000
      [] OTHER -> 0

getCrossBorderLimit(buyerCountry, sellerCountry) ==
    NumOr(countryPairLimits(buyerCountry, sellerCountry),
          NumOr(countryPairLimits(sellerCountry, buyerCountry), 25000000))

checkIndiaRBICompliance(pyusdAmount) == [compliant |-> ~(pyusdAmount > 50000000)]

supportedCountries == {"US", "GB", "DE", "JP", "IN", "SG", "CA", "AU", "FR", "IT", "ES", "NL"}
restrictedCountries == {"IR", "KP", "CU", "SY", "AF"}

evaluateRule14(data) ==
    LET buyerCountry == OrElse(data.buyerCountry, "US")
        sellerCountry == OrElse(data.sellerCountry, "US")
        pyusdAmount == NumOr(data.pyusdAmount, NumOr(data.principalAmount, 0))
    IN IF buyerCountry \notin supportedCountries \/ sellerCountry \notin supportedCountries
       THEN Passed(FALSE)
       ELSE IF buyerCountry \in restrictedCountries \/ sellerCountry \in restrictedCountries
       THEN Passed(FALSE)
       ELSE IF pyusdAmount > getCrossBorderLimit(buyerCountry, sellerCountry)
       THEN Passed(FALSE)
       ELSE IF (buyerCountry = "IN" \/ sellerCountry = "IN")
               /\ ~checkIndiaRBICompliance(pyusdAmount).compliant
       THEN Passed(FALSE)
       ELSE Passed(TRUE)

evaluateRule(rule, transactionData) ==
    CASE rule.ruleId = "RULE_01" -> evaluateRule01(transactionData)
      [] rule.ruleId = "RULE_02" -> evaluateRule02(transactionData)
      [] rule.ruleId = "RULE_03" -> evaluateRule03(transactionData)
      [] rule.ruleId = "RULE_04" -> evaluateRule04(transactionData)
      [] rule.ruleId = "RULE_05" -> evaluateRule05(transactionData)
      [] rule.ruleId = "RULE_06" -> evaluateRule06(transactionData)
      [] rule.ruleId = "RULE_07" -> evaluateRule07(transactionData)
      [] rule.ruleId = "RULE_08" -> evaluateRule08(transactionData)
      [] rule.ruleId = "RULE_09" -> evaluateRule09(transactionData)
      [] rule.ruleId = "RULE_10" -> evaluateRule10(transactionData)
      [] rule.ruleId = "RULE_11" -> evaluateRule11(transactionData)
      [] rule.ruleId = "RULE_12" -> evaluateRule12(transactionData)
      [] rule.ruleId = "RULE_13" -> evaluateRule13(transactionData)
      [] rule.ruleId = "RULE_14" -> evaluateRule14(transactionData)
      [] OTHER -> Passed(FALSE)

emptyResult == [compliant |-> TRUE, passedRules |-> <<>>, failedRules |-> <<>>, warnings |-> <<>>]

\* checkRulesStep with a loop that stops judging rules once one rule has denied
checkRulesStepStopAtFirstDenial(result, rule, transactionData) ==
    IF ~result.compliant THEN result
    ELSE LET ruleResult == evaluateRule(rule, transactionData)
         IN IF ruleResult.threw \/ (~ruleResult.passed /\ rule.action = "DENY")
            THEN [result EXCEPT !.failedRules = Append(@, rule.ruleId), !.compliant = FALSE]
            ELSE IF ruleResult.passed
            THEN [result EXCEPT !.passedRules = Append(@, rule.ruleId)]
            ELSE [result EXCEPT !.warnings = Append(@, rule.ruleId)]

\* one iteration of the for loop of checkRules
checkRulesStep(result, rule, transactionData) ==
    LET ruleResult == evaluateRule(rule, transactionData)
    IN IF ruleResult.threw
       THEN [result EXCEPT !.failedRules = Append(@, rule.ruleId), !.compliant = FALSE]
       ELSE IF ruleResult.passed
       THEN [result EXCEPT !.passedRules = Append(@, rule.ruleId)]
       ELSE IF rule.action = "DENY"
       THEN [result EXCEPT !.failedRules = Append(@, rule.ruleId), !.compliant = FALSE]
       ELSE IF rule.action \in {"WARN", "ADJUST"}
       THEN [result EXCEPT !.warnings = Append(@, rule.ruleId)]
       ELSE result

RECURSIVE checkRulesLoop(_, _, _, _)
checkRulesLoop(rules, i, result, transactionData) ==
    IF i > Len(rules) THEN result
    ELSE checkRulesLoop(rules, i + 1, checkRulesStep(result, rules[i], transactionData),
                        transactionData)

\* the body of checkRules once the policy was found
checkRules(policy, transactionData) == checkRulesLoop(policy.rules, 1, emptyResult, transactionData)

generatePolicyId(policy, dateNow) == <<"POLICY", dateNow, policy.policyName>>

simulatePolicyApplication(policy) ==
    [success |-> TRUE, activeRules |-> [i \in 1..Len(policy.rules) |-> policy.rules[i].ruleId]]

----------------------------------------------------------------------------
(* ForteSDKManager: the calls.                                             *)

\* the largest value Date.now() takes (policy ids are made from it)
MaxClock == 1
Clock == 1..MaxClock

PolicyIds == {generatePolicyId(parsePolicy(f), t) : f \in PolicyFiles, t \in Clock}

TransactionDataSet ==
    [legalEntityIdentifier : {UNDEFINED, LEI_APPLE, LEI_MARKED},
     recipient : {ADDR_CLEAN, ADDR_SANCTIONED},
     assetDescription : {UNDEFINED, DESC_OK, DESC_UNVERIFIED},
     interestRate : {850, 1600},
     documentHash : {HASH_OK, HASH_ZERO},
     tradeDocuments : {<<"invoice_001.pdf">>},
     principalAmount : {5000000},
     pyusdAmount : {0, 500000, 60000000},
     assetType : {"SUPPLY_CHAIN_INVOICE"},
     creditRating : {"BBB"},
     transferAmount : {0, 100, 1000},
     minimumFractionSize : {1000},
     totalFractions : {5000},
     buyerCountry : {"US", "IR"},
     sellerCountry : {"US", "IN", "IR"}]

Call(op, policyId, threw, ret) == [op |-> op, policyId |-> policyId, threw |-> threw, ret |-> ret]
NoCall == Call("none", <<>>, FALSE, FALSE)

\* policyRegistry.set(policyId, policy)
MapSet(map, key, value) == [k \in DOMAIN map \cup {key} |-> IF k = key THEN value ELSE map[k]]

SetupPolicy(policyPath, dateNow) ==
    LET policy == parsePolicy(policyPath)
        policyId == generatePolicyId(policy, dateNow)
    IN /\ policyRegistry' = MapSet(policyRegistry, policyId, policy)
       /\ lastCall' = Call("setupPolicy", policyId, FALSE, policyId)
       /\ UNCHANGED txData

ApplyPolicy(policyId) ==
    /\ lastCall' = Call("applyPolicy", policyId, FALSE,
                        IF policyId \in DOMAIN policyRegistry
                        THEN simulatePolicyApplication(policyRegistry[policyId]).success
                        ELSE FALSE)
    /\ UNCHANGED <<policyRegistry, txData>>

CheckRules(policyId) ==
    /\ lastCall' = IF policyId \in DOMAIN policyRegistry
                   THEN Call("checkRules", policyId, FALSE,
                             checkRules(policyRegistry[policyId], txData))
                   ELSE Call("checkRules", policyId, TRUE, FALSE)
    /\ UNCHANGED <<policyRegistry, txData>>

NextSdk ==
    \/ \E f \in PolicyFiles, t \in Clock : SetupPolicy(f, t) /\ UNCHANGED <<zkVars, limitVars, chainVars, otherVars>>
    \/ \E id \in PolicyIds : ApplyPolicy(id) /\ UNCHANGED <<zkVars, limitVars, chainVars, otherVars>>
    \/ \E id \in PolicyIds : CheckRules(id) /\ UNCHANGED <<zkVars, limitVars, chainVars, otherVars>>

----------------------------------------------------------------------------
(* ZKPretIntegrationManager (TypeScript): the calls, on asset data fixed   *)
(* at the start.                                                           *)

AssetDataSet ==
    [legalEntityIdentifier : {UNDEFINED, LEI_APPLE, LEI_LONG, LEI_MARKED},
     assetDescription : {UNDEFINED, DESC_OK, DESC_UNVERIFIED, DESC_SHORT},
     interestRate : {850, 1500, 1501},
     documentHash : {UNDEFINED, HASH_OK, HASH_ZERO},
     tradeDocuments : {<< >>, <<"invoice_001.pdf">>},
     creditRating : {UNDEFINED, "AAA", "A", "BBB", "CCC", "D"},
     principalAmount : {500000, 1000000, 5000000, 7500000, 10000000, 15000000},
     assetType : {"SUPPLY_CHAIN_INVOICE", "TRADE_FINANCE", "STRUCTURED_PRODUCTS"}]

ZkCalculateMetadataScore ==
    /\ zkCall' = [op |-> "calculateMetadataScore", ret |-> calculateMetadataScore(zkData)]
    /\ UNCHANGED zkData

ZkCheckMetadataThreshold ==
    /\ zkCall' = [op |-> "checkMetadataThreshold", ret |-> checkMetadataThreshold(zkData)]
    /\ UNCHANGED zkData

ZkCalculateOptimalFractions ==
    /\ zkCall' = [op |-> "calculateOptimalFractions",
                  ret |-> calculateOptimalFractions(zkData.principalAmount, zkData.assetType)]
    /\ UNCHANGED zkData

NextZk ==
    \/ ZkCalculateMetadataScore /\ UNCHANGED <<sdkVars, limitVars, chainVars, otherVars>>
    \/ ZkCheckMetadataThreshold /\ UNCHANGED <<sdkVars, limitVars, chainVars, otherVars>>
    \/ ZkCalculateOptimalFractions /\ UNCHANGED <<sdkVars, limitVars, chainVars, otherVars>>

----------------------------------------------------------------------------
(* The three cross-border limit tables.                                    *)

\* RealForteSDKManager.getCrossBorderLimit: limits[key1] || limits[key2] || limits['default']
RealLimits(a, b) ==
    CASE a = "US" /\ b = "IN" -> 50000000
      [] a = "IN" /\ b = "US" -> 50000000
      [] a = "US" /\ b = "GB" -> 100000000
      [] a = "GB" /\ b = "US" -> 100000000
      [] OTHER -> 0

RealForte_getCrossBorderLimit(buyerCountry, sellerCountry) ==
    NumOr(RealLimits(buyerCountry, sellerCountry),
          NumOr(RealLimits(sellerCountry, buyerCountry), 25000000))

\* InstitutionalAssetParams.getCrossBorderPYUSDLimit; the value returned is
\* <n>e18, given here as n (whole PYUSD)
Params_getCrossBorderPYUSDLimit(buyerCountry, sellerCountry) ==
    IF (buyerCountry = "US" /\ sellerCountry = "IN") \/ (buyerCountry = "IN" /\ sellerCountry = "US")
    THEN 50000000
    ELSE IF (buyerCountry = "US" /\ sellerCountry = "GB") \/ (buyerCountry = "GB" /\ sellerCountry = "US")
    THEN 100000000
    ELSE IF (buyerCountry = "US" /\ sellerCountry = "DE") \/ (buyerCountry = "DE" /\ sellerCountry = "US")
    THEN 100000000
    ELSE 25000000

Countries == supportedCountries \cup restrictedCountries

LimitForteSdk(b, s) ==
    limitCall' = [impl |-> "ForteSDKManager", buyer |-> b, seller |-> s,
                  ret |-> getCrossBorderLimit(b, s)]

LimitRealForteSdk(b, s) ==
    limitCall' = [impl |-> "RealForteSDKManager", buyer |-> b, seller |-> s,
                  ret |-> RealForte_getCrossBorderLimit(b, s)]

LimitSolidity(b, s) ==
    limitCall' = [impl |-> "InstitutionalAssetParams", buyer |-> b, seller |-> s,
                  ret |-> Params_getCrossBorderPYUSDLimit(b, s)]

NextLimits ==
    \/ \E b \in Countries, s \in Countries : LimitForteSdk(b, s) /\ UNCHANGED <<sdkVars, zkVars, chainVars, otherVars>>
    \/ \E b \in Countries, s \in Countries : LimitRealForteSdk(b, s) /\ UNCHANGED <<sdkVars, zkVars, chainVars, otherVars>>
    \/ \E b \in Countries, s \in Countries : LimitSolidity(b, s) /\ UNCHANGED <<sdkVars, zkVars, chainVars, otherVars>>

----------------------------------------------------------------------------
(* ZKPretAdapter (Solidity).  Amounts that the contracts hold in wei       *)
(* (<n>e18) are given in whole tokens n.  keccak256 is taken as injective: *)
(* a mapping key is the hashed value itself.                               *)

DEPLOYER == "deployer"
VERIFIER == "verifier"
OUTSIDER == "outsider"
Addresses == {DEPLOYER, VERIFIER, OUTSIDER}

CORP_APPLE == "APPLE INC"

\* the keys the mappings are read and written at
LeiKeys == {LEI_APPLE, LEI_LONG}
ProcessKeys == {DESC_OK, "90-day APPLE INC institutional asset"}
PrincipalAmounts == {1000000, 5000000, 10000000}
AssetKeys == {CORP_APPLE} \X PrincipalAmounts
DocumentKeys == {HASH_OK}

\* enum CreditRating { AAA, AA, A, BBB, BB, B, CCC, CC, C, D }
CreditRatingOrdinal(rating) ==
    CASE rating = "AAA" -> 0 [] rating = "AA" -> 1 [] rating = "A" -> 2
      [] rating = "BBB" -> 3 [] rating = "BB" -> 4 [] rating = "B" -> 5
      [] rating = "CCC" -> 6 [] rating = "CC" -> 7 [] rating = "C" -> 8
      [] rating = "D" -> 9

getAssetTypeMultiplier(assetType) ==
    CASE assetType = "SUPPLY_CHAIN_INVOICE" -> 1000
      [] assetType = "EQUIPMENT_FINANCE" -> 10000
      [] assetType = "COMMERCIAL_REAL_ESTATE" -> 25000
      [] assetType = "TRADE_FINANCE" -> 5000
      [] assetType = "WORKING_CAPITAL" -> 2000
      [] assetType = "CORPORATE_BONDS" -> 1000
      [] OTHER -> 1000

getCreditRatingScore(rating) ==
    IF CreditRatingOrdinal(rating) <= CreditRatingOrdinal("A") THEN 950
    ELSE IF CreditRatingOrdinal(rating) <= CreditRatingOrdinal("BBB") THEN 750
    ELSE IF CreditRatingOrdinal(rating) <= CreditRatingOrdinal("BB") THEN 500
    ELSE IF CreditRatingOrdinal(rating) <= CreditRatingOrdinal("B") THEN 300
    ELSE 100

\* principalInUSD = principalAmount / 1e18 is the whole-token amount
getMinimumMetadataScore(assetType, principalAmount) ==
    LET principalInUSD == principalAmount
        bySize == IF principalInUSD >= 10000000 THEN 95
                  ELSE IF principalInUSD >= 5000000 THEN 85
                  ELSE IF principalInUSD >= 1000000 THEN 75
                  ELSE 70
        structured == IF assetType = "STRUCTURED_PRODUCTS" THEN bySize + 5 ELSE bySize
        baseScore == IF assetType = "TRADE_FINANCE" THEN structured + 3 ELSE structured
    IN IF baseScore > 100 THEN 100 ELSE baseScore

\* bitwise operations of uint256 on the values the model holds
RECURSIVE BitOr(_, _)
BitOr(x, y) ==
    IF x = 0 THEN y
    ELSE IF y = 0 THEN x
    ELSE (IF (x % 2 = 1) \/ (y % 2 = 1) THEN 1 ELSE 0) + 2 * BitOr(x \div 2, y \div 2)

ShiftLeft16(x) == x * 65536
ShiftRight16(x) == x \div 65536
AndFFFF(x) == x % 65536
Uint8(x) == x % 256

\* modifier onlyOwner / onlyAuthorized
onlyOwner(sender) == sender = owner
onlyAuthorized(sender) == authorizedVerifiers[sender] \/ sender = owner

\* getters
isGLEIFVerified(lei) == gleifVerifications[lei]
isBPMNCompliant(processDefinition) == bpmnCompliances[processDefinition]
getACTUSRiskScore(assetData) ==
    LET combined == actuarialRiskScores[assetData]
    IN [riskScore |-> ShiftRight16(combined), liquidityScore |-> AndFFFF(combined)]
isDCSAVerified(documentHash) == TRUE

MetadataScore(reverted, gleif, bpmn, actuarial, dcsa, financial, total) ==
    [reverted |-> reverted, gleifScore |-> gleif, bpmnScore |-> bpmn, actuarialScore |-> actuarial,
     dcsaScore |-> dcsa, financialScore |-> financial, totalScore |-> total]

\* a revert of the view function (arithmetic underflow/overflow, Solidity ^0.8)
ScoreReverted == MetadataScore(TRUE, 0, 0, 0, 0, 0, 0)

Adapter_calculateMetadataScore(asset) ==
    LET gleifScore == IF gleifVerifications[asset.legalEntityIdentifier] THEN 25 ELSE 0
        bpmnScore == IF bpmnCompliances[asset.assetDescription] THEN 20 ELSE 10
        combinedScores == actuarialRiskScores[<<asset.corporateName, asset.principalAmount>>]
        riskScore == ShiftRight16(combinedScores)
        deduction == (riskScore * 20) \div 1000
        actuarialScore == IF combinedScores > 0 THEN Uint8(20 - deduction) ELSE 5
        dcsaScore == 15
        creditScore == getCreditRatingScore(asset.creditRating)
        financialScore == Uint8(((creditScore * 20) \div 1000) + 2)
        totalScore == gleifScore + bpmnScore + actuarialScore + dcsaScore + financialScore
    IN IF combinedScores > 0 /\ deduction > 20 THEN ScoreReverted
       ELSE IF totalScore > 255 THEN ScoreReverted
       ELSE MetadataScore(FALSE, gleifScore, bpmnScore, actuarialScore, dcsaScore,
                          financialScore, totalScore)

\* principalAmount / multiplier on the wei amount <n>e18: multiplier * 10000 < 1e18,
\* so the quotient of any amount of at least one whole token exceeds 10000
Adapter_calculateOptimalFractions(principalAmount, assetType) ==
    LET multiplier == getAssetTypeMultiplier(assetType)
        quotientAbove10000 == principalAmount >= 1
        optimalCount == IF quotientAbove10000 THEN 10000 ELSE 10
        minimumSize == principalAmount \div optimalCount
    IN [optimalCount |-> optimalCount,
        minimumSize |-> minimumSize,
        maximumSize |-> minimumSize * 10,
        liquidityFactor |-> IF optimalCount >= 100 /\ optimalCount <= 5000 THEN 150 ELSE 100,
        dustProtection |-> TRUE]

Adapter_checkMetadataThreshold(asset) ==
    LET score == Adapter_calculateMetadataScore(asset)
        currentScore == score.totalScore
        requiredScore == getMinimumMetadataScore(asset.assetType, asset.principalAmount)
    IN [reverted |-> score.reverted,
        meetsThreshold |-> ~score.reverted /\ currentScore >= requiredScore,
        currentScore |-> currentScore,
        requiredScore |-> requiredScore]

AdapterCallRecord(op, reverted, ret) == [op |-> op, reverted |-> reverted, ret |-> ret]
NoAdapterCall == AdapterCallRecord("none", FALSE, FALSE)

AdapterReverts(op) ==
    /\ adapterCall' = AdapterCallRecord(op, TRUE, FALSE)
    /\ UNCHANGED <<owner, authorizedVerifiers, registryVars>>

Adapter_verifyGLEIF(sender, lei, verified) ==
    IF ~onlyAuthorized(sender) THEN AdapterReverts("verifyGLEIF")
    ELSE /\ gleifVerifications' = [gleifVerifications EXCEPT ![lei] = verified]
         /\ adapterCall' = AdapterCallRecord("verifyGLEIF", FALSE, FALSE)
         /\ UNCHANGED <<owner, authorizedVerifiers, bpmnCompliances, actuarialRiskScores,
                        dcsaDocumentVerifications>>

Adapter_verifyBPMNCompliance(sender, processDefinition, compliant) ==
    IF ~onlyAuthorized(sender) THEN AdapterReverts("verifyBPMNCompliance")
    ELSE /\ bpmnCompliances' = [bpmnCompliances EXCEPT ![processDefinition] = compliant]
         /\ adapterCall' = AdapterCallRecord("verifyBPMNCompliance", FALSE, FALSE)
         /\ UNCHANGED <<owner, authorizedVerifiers, gleifVerifications, actuarialRiskScores,
                        dcsaDocumentVerifications>>

Adapter_assessACTUSRisk(sender, assetData, riskScore, liquidityScore) ==
    IF ~onlyAuthorized(sender) THEN AdapterReverts("assessACTUSRisk")
    ELSE /\ actuarialRiskScores' = [actuarialRiskScores EXCEPT
                                       ![assetData] = BitOr(ShiftLeft16(riskScore), liquidityScore)]
         /\ adapterCall' = AdapterCallRecord("assessACTUSRisk", FALSE, FALSE)
         /\ UNCHANGED <<owner, authorizedVerifiers, gleifVerifications, bpmnCompliances,
                        dcsaDocumentVerifications>>

Adapter_verifyDCSADocuments(sender, documentHash, verified) ==
    IF ~onlyAuthorized(sender) THEN AdapterReverts("verifyDCSADocuments")
    ELSE /\ dcsaDocumentVerifications' = [dcsaDocumentVerifications EXCEPT ![documentHash] = verified]
         /\ adapterCall' = AdapterCallRecord("verifyDCSADocuments", FALSE, FALSE)
         /\ UNCHANGED <<owner, authorizedVerifiers, gleifVerifications, bpmnCompliances,
                        actuarialRiskScores>>

addAuthorizedVerifier(sender, verifier) ==
    IF ~onlyOwner(sender) THEN AdapterReverts("addAuthorizedVerifier")
    ELSE /\ authorizedVerifiers' = [authorizedVerifiers EXCEPT ![verifier] = TRUE]
         /\ adapterCall' = AdapterCallRecord("addAuthorizedVerifier", FALSE, FALSE)
         /\ UNCHANGED <<owner, registryVars>>

removeAuthorizedVerifier(sender, verifier) ==
    IF ~onlyOwner(sender) THEN AdapterReverts("removeAuthorizedVerifier")
    ELSE /\ authorizedVerifiers' = [authorizedVerifiers EXCEPT ![verifier] = FALSE]
         /\ adapterCall' = AdapterCallRecord("removeAuthorizedVerifier", FALSE, FALSE)
         /\ UNCHANGED <<owner, registryVars>>

transferOwnership(sender, newOwner) ==
    IF ~onlyOwner(sender) THEN AdapterReverts("transferOwnership")
    ELSE /\ owner' = newOwner
         /\ adapterCall' = AdapterCallRecord("transferOwnership", FALSE, FALSE)
         /\ UNCHANGED <<authorizedVerifiers, registryVars>>

AdapterCalculateMetadataScore(asset) ==
    LET score == Adapter_calculateMetadataScore(asset)
    IN /\ adapterCall' = AdapterCallRecord("calculateMetadataScore", score.reverted, score)
       /\ UNCHANGED <<owner, authorizedVerifiers, registryVars>>

AdapterCheckMetadataThreshold(asset) ==
    LET ret == Adapter_checkMetadataThreshold(asset)
    IN /\ adapterCall' = AdapterCallRecord("checkMetadataThreshold", ret.reverted, ret)
       /\ UNCHANGED <<owner, authorizedVerifiers, registryVars>>

\* calculateOptimalFractions is external pure: the call and what it returns
AdapterCalculateOptimalFractions(principalAmount, assetType) ==
    /\ adapterCall' = AdapterCallRecord("calculateOptimalFractions", FALSE,
                         [principalAmount |-> principalAmount, assetType |-> assetType,
                          params |-> Adapter_calculateOptimalFractions(principalAmount, assetType)])
    /\ UNCHANGED <<owner, authorizedVerifiers, registryVars>>

\* the calls of the adapter specification
AdapterAssets ==
    [legalEntityIdentifier : {LEI_APPLE},
     assetDescription : {DESC_OK},
     corporateName : {CORP_APPLE},
     principalAmount : {10000000},
     creditRating : {"AAA", "BBB", "D"},
     assetType : {"SUPPLY_CHAIN_INVOICE", "STRUCTURED_PRODUCTS"}]

NextAdapter ==
    \/ \E a \in Addresses, lei \in {LEI_APPLE}, v \in BOOLEAN :
          Adapter_verifyGLEIF(a, lei, v) /\ UNCHANGED <<sdkVars, zkVars, limitVars, factoryVars, escrowVars, otherVars>>
    \/ \E a \in Addresses, p \in {DESC_OK}, v \in BOOLEAN :
          Adapter_verifyBPMNCompliance(a, p, v) /\ UNCHANGED <<sdkVars, zkVars, limitVars, factoryVars, escrowVars, otherVars>>
    \/ \E a \in Addresses, k \in {<<CORP_APPLE, 10000000>>}, r \in {0, 300, 1100}, l \in {0, 700} :
          Adapter_assessACTUSRisk(a, k, r, l) /\ UNCHANGED <<sdkVars, zkVars, limitVars, factoryVars, escrowVars, otherVars>>
    \/ \E a \in Addresses, d \in DocumentKeys, v \in BOOLEAN :
          Adapter_verifyDCSADocuments(a, d, v) /\ UNCHANGED <<sdkVars, zkVars, limitVars, factoryVars, escrowVars, otherVars>>
    \/ \E a \in Addresses, v \in Addresses :
          addAuthorizedVerifier(a, v) /\ UNCHANGED <<sdkVars, zkVars, limitVars, factoryVars, escrowVars, otherVars>>
    \/ \E a \in Addresses, v \in Addresses :
          removeAuthorizedVerifier(a, v) /\ UNCHANGED <<sdkVars, zkVars, limitVars, factoryVars, escrowVars, otherVars>>
    \/ \E a \in Addresses, n \in Addresses :
          transferOwnership(a, n) /\ UNCHANGED <<sdkVars, zkVars, limitVars, factoryVars, escrowVars, otherVars>>
    \/ \E asset \in AdapterAssets :
          AdapterCalculateMetadataScore(asset) /\ UNCHANGED <<sdkVars, zkVars, limitVars, factoryVars, escrowVars, otherVars>>
    \/ \E asset \in AdapterAssets :
          AdapterCheckMetadataThreshold(asset) /\ UNCHANGED <<sdkVars, zkVars, limitVars, factoryVars, escrowVars, otherVars>>
    \/ \E p \in {5000, 5000000, 600000000}, t \in {"SUPPLY_CHAIN_INVOICE", "EQUIPMENT_FINANCE", "STRUCTURED_PRODUCTS"} :
          AdapterCalculateOptimalFractions(p, t) /\ UNCHANGED <<sdkVars, zkVars, limitVars, factoryVars, escrowVars, otherVars>>

----------------------------------------------------------------------------
(* InstitutionalAssetFactory (Solidity) and the InstitutionalAsset         *)
(* constructor.                                                            *)

ALICE == "alice"
BOB == "bob"
FACTORY == "InstitutionalAssetFactory"
ADAPTER == "ZKPretAdapter"
NOT_A_CONTRACT == "0x000000000000000000000000000000000000dEaD"
ZERO_ADDRESS == "0x0000000000000000000000000000000000000000"
Wallets == {ALICE, BOB}

\* Strings.toString(value)
Digit(d) == CASE d = 0 -> "0" [] d = 1 -> "1" [] d = 2 -> "2" [] d = 3 -> "3" [] d = 4 -> "4"
              [] d = 5 -> "5" [] d = 6 -> "6" [] d = 7 -> "7" [] d = 8 -> "8" [] d = 9 -> "9"

RECURSIVE toStringDigits(_)
toStringDigits(value) ==
    IF value = 0 THEN "" ELSE toStringDigits(value \div 10) \o Digit(value % 10)

toString(value) == IF value = 0 THEN "0" ELSE toStringDigits(value)

\* bytes(lei).length of the LEIs of the model
BytesLength(lei) == StringLength(lei)

\* the struct handed to createInstitutionalAsset (the fields the contracts read)
AssetParams(corporateName, lei, corporateWallet, assetType, assetDescription, principalAmount, interestRate, maturityDays, creditRating, documentHash, manager) ==
    [corporateName |-> corporateName,
     legalEntityIdentifier |-> lei,
     corporateWallet |-> corporateWallet,
     assetType |-> assetType,
     assetDescription |-> assetDescription,
     principalAmount |-> principalAmount,
     interestRate |-> interestRate,
     maturityDays |-> maturityDays,
     creditRating |-> creditRating,
     documentHash |-> documentHash,
     totalFractions |-> 0,
     minimumFractionSize |-> 0,
     status |-> "PENDING_VERIFICATION",
     manager |-> manager]

\* InstitutionalAsset constructor: the storage of the deployed contract
InstitutionalAsset_constructor(assetData) ==
    LET totalSupply == assetData.totalFractions
    IN [assetData |-> assetData,
        totalSupply |-> totalSupply,
        balances |-> [a \in {assetData.manager} |-> totalSupply],
        holders |-> <<assetData.manager>>,
        whitelistedInvestors |-> {assetData.manager}]

\* the body of createInstitutionalAsset run for a message sender: the violated
\* require or the asset data that is deployed
createInstitutionalAssetBody(msgSender, params) ==
    LET scores == getACTUSRiskScore(<<params.corporateName, params.principalAmount>>)
        fractionParams == Adapter_calculateOptimalFractions(params.principalAmount, params.assetType)
        withFractions == [params EXCEPT !.totalFractions = fractionParams.optimalCount,
                                        !.minimumFractionSize = fractionParams.minimumSize]
        score == Adapter_calculateMetadataScore(withFractions)
        threshold == Adapter_checkMetadataThreshold(withFractions)
        Revert(reason) == [reverted |-> TRUE, reason |-> reason, assetData |-> params]
    IN IF zkPretAdapter # ADAPTER THEN Revert("call to non-contract")
       ELSE IF ~isGLEIFVerified(params.legalEntityIdentifier) THEN Revert("FORTE RULE 1 VIOLATION")
       ELSE IF BytesLength(params.legalEntityIdentifier) # 20 THEN Revert("FORTE RULE 4 VIOLATION")
       ELSE IF ~isBPMNCompliant(params.assetDescription) THEN Revert("FORTE RULE 5 VIOLATION")
       ELSE IF ~(scores.riskScore > 0 /\ scores.riskScore <= 500) THEN Revert("FORTE RULE 6 VIOLATION")
       ELSE IF ~isDCSAVerified(params.documentHash) THEN Revert("FORTE RULE 7 VIOLATION")
       ELSE IF score.reverted THEN Revert("arithmetic")
       ELSE IF ~(score.totalScore >= 70) THEN Revert("FORTE RULE 9 VIOLATION")
       ELSE IF ~(withFractions.minimumFractionSize >= 500) THEN Revert("FORTE RULE 10 VIOLATION")
       ELSE IF ~(withFractions.totalFractions >= 10 /\ withFractions.totalFractions <= 10000)
            THEN Revert("FORTE RULE 11 VIOLATION")
       ELSE IF ~threshold.meetsThreshold THEN Revert("FORTE RULE 12 VIOLATION")
       ELSE [reverted |-> FALSE, reason |-> "",
             assetData |-> [withFractions EXCEPT !.status = "APPROVED", !.manager = msgSender]]

FactoryCallRecord(op, sender, reverted, ret) ==
    [op |-> op, sender |-> sender, reverted |-> reverted, ret |-> ret]
NoFactoryCall == FactoryCallRecord("none", ZERO_ADDRESS, FALSE, ZERO_ADDRESS)

\* the address of the next contract the factory deploys
NewAssetAddress == <<"InstitutionalAsset", Len(allAssets) + 1>>

\* deployment and registration, or the revert, of a create transaction sent by `sender`
FactoryCreate(op, sender, outcome) ==
    IF outcome.reverted
    THEN /\ factoryCall' = FactoryCallRecord(op, sender, TRUE, outcome.reason)
         /\ UNCHANGED <<zkPretAdapter, institutionalAssets, leiToAsset, allAssets,
                        totalAssetsCreated, assetContracts>>
    ELSE LET assetContract == NewAssetAddress
         IN /\ assetContracts' = MapSet(assetContracts, assetContract,
                                        InstitutionalAsset_constructor(outcome.assetData))
            /\ institutionalAssets' = institutionalAssets \cup {assetContract}
            /\ leiToAsset' = [leiToAsset EXCEPT ![outcome.assetData.legalEntityIdentifier] = assetContract]
            /\ allAssets' = Append(allAssets, assetContract)
            /\ totalAssetsCreated' = totalAssetsCreated + 1
            /\ factoryCall' = FactoryCallRecord(op, sender, FALSE, assetContract)
            /\ UNCHANGED zkPretAdapter

createInstitutionalAsset(sender, params) ==
    FactoryCreate("createInstitutionalAsset", sender, createInstitutionalAssetBody(sender, params))

\* createQuickInstitutionalAsset ends in the external call this.createInstitutionalAsset(params):
\* the message sender of that call is the factory
createQuickInstitutionalAsset(sender, corporateName, lei, assetType, principalAmount, maturityDays, interestRate, blockTimestamp) ==
    LET params == AssetParams(corporateName, lei, sender, assetType,
                              toString(maturityDays) \o "-day " \o corporateName \o " institutional asset",
                              principalAmount, interestRate, maturityDays, "BBB",
                              <<corporateName, principalAmount, blockTimestamp>>, ZERO_ADDRESS)
    IN FactoryCreate("createQuickInstitutionalAsset", sender,
                     createInstitutionalAssetBody(FACTORY, params))

updateZKPretAdapter(sender, newAdapter) ==
    /\ zkPretAdapter' = newAdapter
    /\ factoryCall' = FactoryCallRecord("updateZKPretAdapter", sender, FALSE, newAdapter)
    /\ UNCHANGED <<institutionalAssets, leiToAsset, allAssets, totalAssetsCreated, assetContracts>>

\* the calls of the factory specification
MaxAssets == 2
FactoryPrincipals == {1000000, 5000000}
FactoryParams ==
    {AssetParams(CORP_APPLE, lei, w, "SUPPLY_CHAIN_INVOICE", DESC_OK, p, 850, 90, rating, HASH_OK, w) :
        lei \in LeiKeys, w \in Wallets, p \in FactoryPrincipals, rating \in {"BBB", "D"}}

NextFactory ==
    \/ \E lei \in LeiKeys, v \in BOOLEAN :
          Adapter_verifyGLEIF(DEPLOYER, lei, v) /\ UNCHANGED <<sdkVars, zkVars, limitVars, factoryVars, escrowVars, otherVars>>
    \/ \E p \in ProcessKeys, v \in BOOLEAN :
          Adapter_verifyBPMNCompliance(DEPLOYER, p, v) /\ UNCHANGED <<sdkVars, zkVars, limitVars, factoryVars, escrowVars, otherVars>>
    \/ \E r \in {300, 900} :
          Adapter_assessACTUSRisk(DEPLOYER, <<CORP_APPLE, 5000000>>, r, 700)
             /\ UNCHANGED <<sdkVars, zkVars, limitVars, factoryVars, escrowVars, otherVars>>
    \/ \E w \in Wallets, params \in FactoryParams :
          /\ Len(allAssets) < MaxAssets
          /\ createInstitutionalAsset(w, params)
          /\ UNCHANGED <<sdkVars, zkVars, limitVars, adapterVars, escrowVars, otherVars>>
    \/ \E w \in Wallets, lei \in LeiKeys, p \in FactoryPrincipals :
          /\ Len(allAssets) < MaxAssets
          /\ createQuickInstitutionalAsset(w, CORP_APPLE, lei, "SUPPLY_CHAIN_INVOICE", p, 90, 850, 1)
          /\ UNCHANGED <<sdkVars, zkVars, limitVars, adapterVars, escrowVars, otherVars>>
    \/ \E w \in Wallets, a \in {ADAPTER, NOT_A_CONTRACT} :
          updateZKPretAdapter(w, a) /\ UNCHANGED <<sdkVars, zkVars, limitVars, adapterVars, escrowVars, otherVars>>

----------------------------------------------------------------------------
(* PyusdCrossBorderFinance (Solidity) with the PYUSD token behind the      *)
(* IPYUSD interface, a standard ERC-20 with 6 decimals.                    *)

ESCROW == "PyusdCrossBorderFinance"
BUYER_BANK == "buyerBank"
SELLER_BANK == "sellerBank"
SANCTIONED_ACCOUNT == "0x1111111111111111111111111111111111111111"
EscrowAccounts == {ALICE, BOB, BUYER_BANK, SELLER_BANK, OUTSIDER, SANCTIONED_ACCOUNT, ESCROW, ZERO_ADDRESS}

Currencies == {"USD", "EUR", "GBP", "JPY", "CNY", "INR"}

\* floor(x * y / d) of uint256, split so that the partial products of the amounts used stay small
MulDiv(x, y, d) == (x \div d) * y + ((x % d) * y) \div d

\* the constructor's rate table (scaled by 1e6); a currency never set reads 0
InitialExchangeRates ==
    [c \in Currencies |->
        CASE c = "USD" -> 1000000
          [] c = "EUR" -> 1100000
          [] c = "GBP" -> 1250000
          [] c = "JPY" -> 6700
          [] c = "CNY" -> 140000
          [] OTHER -> 0]

\* an entry of `trades` that was never written
EmptyTrade ==
    [tradeId |-> 0, buyer |-> ZERO_ADDRESS, seller |-> ZERO_ADDRESS,
     buyerBank |-> ZERO_ADDRESS, sellerBank |-> ZERO_ADDRESS,
     pyusdAmount |-> 0, localAmount |-> 0, localCurrency |-> "",
     buyerCountry |-> "", sellerCountry |-> "", letterOfCreditHash |-> "",
     gleifVerified |-> FALSE, complianceCleared |-> FALSE,
     status |-> "INITIATED", createdAt |-> 0, settledAt |-> 0]

_isOnSanctionsList(account) == account = SANCTIONED_ACCOUNT

_validateCrossBorderCompliance(buyerCountry, sellerCountry) ==
    buyerCountry # "IR" /\ sellerCountry # "IR"

\* [reverted, amount]: require(rate > 0), then (localAmount * rate) / 1e6
_convertToPYUSD(localAmount, currency) ==
    LET rate == exchangeRates[currency]
    IN IF ~(rate > 0) THEN [reverted |-> TRUE, amount |-> 0]
       ELSE [reverted |-> FALSE, amount |-> MulDiv(localAmount, rate, 1000000)]

onlyTradeParticipant(sender, tradeId) ==
    LET trade == trades[tradeId]
    IN sender = trade.buyer \/ sender = trade.seller \/ sender = trade.buyerBank
          \/ sender = trade.sellerBank

\* PYUSD.transfer sent by `from`: the balances after it, or the revert
Erc20Transfer(balances, from, to, amount) ==
    IF balances[from] < amount THEN [reverted |-> TRUE, balances |-> balances]
    ELSE [reverted |-> FALSE,
          balances |-> [a \in DOMAIN balances |->
                           balances[a] - (IF a = from THEN amount ELSE 0)
                                       + (IF a = to THEN amount ELSE 0)]]

\* PYUSD.transferFrom sent by `spender`
Erc20TransferFrom(balances, allowances, spender, from, to, amount) ==
    IF allowances[from][spender] < amount
    THEN [reverted |-> TRUE, balances |-> balances, allowances |-> allowances]
    ELSE LET moved == Erc20Transfer(balances, from, to, amount)
         IN [reverted |-> moved.reverted,
             balances |-> moved.balances,
             allowances |-> IF moved.reverted THEN allowances
                            ELSE [allowances EXCEPT ![from][spender] = @ - amount]]

EscrowCallRecord(op, tradeId, reverted) == [op |-> op, tradeId |-> tradeId, reverted |-> reverted]
NoEscrowCall == EscrowCallRecord("none", 0, FALSE)

\* a reverted transaction leaves no trace but its failure
EscrowReverts(op, tradeId) ==
    /\ escrowCall' = EscrowCallRecord(op, 0, TRUE)
    /\ UNCHANGED <<trades, userTrades, exchangeRates, nextTradeId, tokenVars, tradeLog>>

\* PYUSD.approve(spender, amount) sent by tokenOwner
PYUSD_approve(tokenOwner, spender, amount) ==
    /\ pyusdAllowances' = [pyusdAllowances EXCEPT ![tokenOwner][spender] = amount]
    /\ escrowCall' = EscrowCallRecord("approve", 0, FALSE)
    /\ UNCHANGED <<trades, userTrades, exchangeRates, nextTradeId, pyusdBalances, tradeLog>>

initiateCrossBorderTrade(sender, seller, buyerBank, sellerBank, localAmount, localCurrency, buyerCountry, sellerCountry, letterOfCreditHash, buyerLEI, sellerLEI, blockTimestamp) ==
    LET converted == _convertToPYUSD(localAmount, localCurrency)
        pyusdAmount == converted.amount
        tradeId == nextTradeId
        participants == {sender, seller, buyerBank, sellerBank}
    IN IF \/ ~(isGLEIFVerified(buyerLEI) /\ isGLEIFVerified(sellerLEI))
          \/ _isOnSanctionsList(sender)
          \/ _isOnSanctionsList(seller)
          \/ ~_validateCrossBorderCompliance(buyerCountry, sellerCountry)
          \/ converted.reverted
          \/ ~(pyusdAmount >= 1000 * 1000000)
       THEN EscrowReverts("initiateCrossBorderTrade", tradeId)
       ELSE /\ nextTradeId' = nextTradeId + 1
            /\ trades' = [trades EXCEPT ![tradeId] =
                  [@ EXCEPT !.tradeId = tradeId, !.buyer = sender, !.seller = seller,
                            !.buyerBank = buyerBank, !.sellerBank = sellerBank,
                            !.pyusdAmount = pyusdAmount, !.localAmount = localAmount,
                            !.localCurrency = localCurrency, !.buyerCountry = buyerCountry,
                            !.sellerCountry = sellerCountry,
                            !.letterOfCreditHash = letterOfCreditHash,
                            !.status = "INITIATED", !.createdAt = blockTimestamp]]
            \* one push per argument: an account named twice is pushed twice
            /\ userTrades' = [a \in DOMAIN userTrades |->
                  LET pushes == Cardinality({i \in 1..4 :
                                    <<sender, seller, buyerBank, sellerBank>>[i] = a})
                  IN userTrades[a] \o [i \in 1..pushes |-> tradeId]]
            /\ escrowCall' = EscrowCallRecord("initiateCrossBorderTrade", tradeId, FALSE)
            /\ UNCHANGED <<exchangeRates, tokenVars, tradeLog>>

executeComplianceCheck_anyStatus(trade) == TRUE

\* require(trade.status == TradeStatus.INITIATED)
executeComplianceCheck_statusOk(trade) == trade.status = "INITIATED"

executeComplianceCheck(sender, tradeId) ==
    LET trade == trades[tradeId]
    IN IF \/ ~onlyTradeParticipant(sender, tradeId)
          \/ ~executeComplianceCheck_statusOk(trade)
          \/ ~isDCSAVerified(trade.letterOfCreditHash)
       THEN EscrowReverts("executeComplianceCheck", tradeId)
       ELSE /\ trades' = [trades EXCEPT ![tradeId] =
                  [@ EXCEPT !.gleifVerified = TRUE, !.complianceCleared = TRUE,
                            !.status = "COMPLIANCE_CHECK"]]
            /\ tradeLog' = [tradeLog EXCEPT ![tradeId] =
                  Append(@, [op |-> "executeComplianceCheck", from |-> ZERO_ADDRESS, amount |-> 0])]
            /\ escrowCall' = EscrowCallRecord("executeComplianceCheck", tradeId, FALSE)
            /\ UNCHANGED <<userTrades, exchangeRates, nextTradeId, tokenVars>>

escrowPYUSD(sender, tradeId) ==
    LET trade == trades[tradeId]
        pulled == Erc20TransferFrom(pyusdBalances, pyusdAllowances, ESCROW,
                                    trade.buyer, ESCROW, trade.pyusdAmount)
    IN IF \/ ~onlyTradeParticipant(sender, tradeId)
          \/ ~(trade.status = "COMPLIANCE_CHECK")
          \/ ~trade.complianceCleared
          \/ pulled.reverted
       THEN EscrowReverts("escrowPYUSD", tradeId)
       ELSE /\ pyusdBalances' = pulled.balances
            /\ pyusdAllowances' = pulled.allowances
            /\ trades' = [trades EXCEPT ![tradeId].status = "PYUSD_ESCROWED"]
            /\ tradeLog' = [tradeLog EXCEPT ![tradeId] =
                  Append(@, [op |-> "escrowPYUSD", from |-> trade.buyer,
                             amount |-> pyusdBalances[trade.buyer] - pulled.balances[trade.buyer]])]
            /\ escrowCall' = EscrowCallRecord("escrowPYUSD", tradeId, FALSE)
            /\ UNCHANGED <<userTrades, exchangeRates, nextTradeId>>

\* a settlement that also accepts a trade that is settled already
executeInstantSettlement_orSettled(trade) == trade.status \in {"PYUSD_ESCROWED", "SETTLED"}

executeInstantSettlement_beforeEscrow(trade) == trade.status \in {"COMPLIANCE_CHECK", "PYUSD_ESCROWED"}

\* require(trade.status == TradeStatus.PYUSD_ESCROWED)
executeInstantSettlement_statusOk(trade) == trade.status = "PYUSD_ESCROWED"

executeInstantSettlement(sender, tradeId, blockTimestamp) ==
    LET trade == trades[tradeId]
        sellerAmount == MulDiv(trade.pyusdAmount, 98, 100)
        buyerBankFee == MulDiv(trade.pyusdAmount, 1, 100)
        sellerBankFee == MulDiv(trade.pyusdAmount, 1, 100)
        paid1 == Erc20Transfer(pyusdBalances, ESCROW, trade.seller, sellerAmount)
        paid2 == Erc20Transfer(paid1.balances, ESCROW, trade.buyerBank, buyerBankFee)
        paid3 == Erc20Transfer(paid2.balances, ESCROW, trade.sellerBank, sellerBankFee)
    IN IF \/ ~onlyTradeParticipant(sender, tradeId)
          \/ ~executeInstantSettlement_statusOk(trade)
          \/ _isOnSanctionsList(trade.seller)
          \/ paid1.reverted \/ paid2.reverted \/ paid3.reverted
       THEN EscrowReverts("executeInstantSettlement", tradeId)
       ELSE /\ pyusdBalances' = paid3.balances
            /\ trades' = [trades EXCEPT ![tradeId] =
                  [@ EXCEPT !.status = "SETTLED", !.settledAt = blockTimestamp]]
            /\ tradeLog' = [tradeLog EXCEPT ![tradeId] =
                  Append(@, [op |-> "executeInstantSettlement", from |-> ESCROW,
                             amount |-> pyusdBalances[ESCROW] - paid3.balances[ESCROW]])]
            /\ escrowCall' = EscrowCallRecord("executeInstantSettlement", tradeId, FALSE)
            /\ UNCHANGED <<userTrades, exchangeRates, nextTradeId, pyusdAllowances>>

\* emits an event only
initiateCrossChainTrade(sender, tradeId) ==
    LET trade == trades[tradeId]
    IN IF ~onlyTradeParticipant(sender, tradeId) \/ ~(trade.status = "SETTLED")
       THEN EscrowReverts("initiateCrossChainTrade", tradeId)
       ELSE /\ escrowCall' = EscrowCallRecord("initiateCrossChainTrade", tradeId, FALSE)
            /\ UNCHANGED <<trades, userTrades, exchangeRates, nextTradeId, tokenVars, tradeLog>>

updateExchangeRate(sender, currency, rate) ==
    /\ exchangeRates' = [exchangeRates EXCEPT ![currency] = rate]
    /\ escrowCall' = [op |-> "updateExchangeRate", tradeId |-> 0, reverted |-> FALSE,
                      sender |-> sender]
    /\ UNCHANGED <<trades, userTrades, nextTradeId, tokenVars, tradeLog>>

\* the calls of the escrow specification
MaxTrades == 2
TradeIds == 0..MaxTrades
BuyerFunds == 2100000000
EscrowSenders == {ALICE, BOB, OUTSIDER}

\* initiateCrossBorderTrade arguments: two accepted trades (the EUR one names a
\* sanctioned buyer bank and converts to 1,098,900,055 units, not a multiple of
\* 100), and one rejected by each require
InitiateArguments ==
    {[buyerBank |-> BUYER_BANK, sender |-> ALICE, seller |-> BOB, localAmount |-> 1000000000, localCurrency |-> "USD",
      sellerCountry |-> "IN", sellerLEI |-> LEI_APPLE],
     [buyerBank |-> SANCTIONED_ACCOUNT, sender |-> ALICE, seller |-> BOB, localAmount |-> 999000050, localCurrency |-> "EUR",
      sellerCountry |-> "IN", sellerLEI |-> LEI_APPLE],
     [buyerBank |-> BUYER_BANK, sender |-> ALICE, seller |-> BOB, localAmount |-> 1000000000, localCurrency |-> "USD",
      sellerCountry |-> "IN", sellerLEI |-> LEI_LONG],
     [buyerBank |-> BUYER_BANK, sender |-> SANCTIONED_ACCOUNT, seller |-> BOB, localAmount |-> 1000000000, localCurrency |-> "USD",
      sellerCountry |-> "IN", sellerLEI |-> LEI_APPLE],
     [buyerBank |-> BUYER_BANK, sender |-> ALICE, seller |-> SANCTIONED_ACCOUNT, localAmount |-> 1000000000, localCurrency |-> "USD",
      sellerCountry |-> "IN", sellerLEI |-> LEI_APPLE],
     [buyerBank |-> BUYER_BANK, sender |-> ALICE, seller |-> BOB, localAmount |-> 1000000000, localCurrency |-> "USD",
      sellerCountry |-> "IR", sellerLEI |-> LEI_APPLE],
     [buyerBank |-> BUYER_BANK, sender |-> ALICE, seller |-> BOB, localAmount |-> 1000000000, localCurrency |-> "INR",
      sellerCountry |-> "IN", sellerLEI |-> LEI_APPLE],
     [buyerBank |-> BUYER_BANK, sender |-> ALICE, seller |-> BOB, localAmount |-> 999000000, localCurrency |-> "USD",
      sellerCountry |-> "IN", sellerLEI |-> LEI_APPLE]}

NextEscrow ==
    \/ \E v \in BOOLEAN :
          Adapter_verifyGLEIF(DEPLOYER, LEI_APPLE, v)
             /\ UNCHANGED <<sdkVars, zkVars, limitVars, factoryVars, escrowVars, otherVars>>
    \/ \E amount \in {0, BuyerFunds} :
          PYUSD_approve(ALICE, ESCROW, amount)
             /\ UNCHANGED <<sdkVars, zkVars, limitVars, adapterVars, factoryVars, otherVars>>
    \/ \E args \in InitiateArguments :
          /\ nextTradeId < MaxTrades
          /\ initiateCrossBorderTrade(args.sender, args.seller, args.buyerBank, SELLER_BANK,
                                      args.localAmount, args.localCurrency, "US", args.sellerCountry,
                                      HASH_OK, LEI_APPLE, args.sellerLEI, 1)
          /\ UNCHANGED <<sdkVars, zkVars, limitVars, adapterVars, factoryVars, otherVars>>
    \/ \E sender \in EscrowSenders, tradeId \in TradeIds :
          executeComplianceCheck(sender, tradeId)
             /\ UNCHANGED <<sdkVars, zkVars, limitVars, adapterVars, factoryVars, otherVars>>
    \/ \E sender \in EscrowSenders, tradeId \in TradeIds :
          escrowPYUSD(sender, tradeId)
             /\ UNCHANGED <<sdkVars, zkVars, limitVars, adapterVars, factoryVars, otherVars>>
    \/ \E sender \in EscrowSenders, tradeId \in TradeIds :
          executeInstantSettlement(sender, tradeId, 2)
             /\ UNCHANGED <<sdkVars, zkVars, limitVars, adapterVars, factoryVars, otherVars>>
    \/ \E sender \in EscrowSenders, tradeId \in TradeIds :
          initiateCrossChainTrade(sender, tradeId)
             /\ UNCHANGED <<sdkVars, zkVars, limitVars, adapterVars, factoryVars, otherVars>>
    \/ \E rate \in {0, 1100000} :
          updateExchangeRate(OUTSIDER, "EUR", rate)
             /\ UNCHANGED <<sdkVars, zkVars, limitVars, adapterVars, factoryVars, otherVars>>

----------------------------------------------------------------------------
(* RealForteSDKManager (TypeScript): checkRules against the FORTE cloud    *)
(* with the local evaluation as fallback.                                  *)

RealForte_evaluateRule01(data) ==
    IF OrElse(data.legalEntityIdentifier, "") = "" THEN Passed(FALSE)
    ELSE Passed(verifyGLEIF(data.legalEntityIdentifier).verified)

RealForte_evaluateRule02(data) ==
    Passed(~(ToLowerCase(data.recipient) \in {ADDR_SANCTIONED}))

RealForte_evaluateRule13(data) ==
    LET pyusdAmount == NumOr(data.pyusdAmount, NumOr(data.principalAmount, 0))
        pegStable == 1001 >= 995 /\ 1001 <= 1005
        sufficientReserves == pyusdAmount <= 50000000
    IN IF ~pegStable THEN Passed(FALSE)
       ELSE IF ~sufficientReserves THEN Passed(FALSE)
       ELSE Passed(TRUE)

RealForte_evaluateRule14(data) ==
    LET buyerCountry == OrElse(data.buyerCountry, "US")
        sellerCountry == OrElse(data.sellerCountry, "US")
        pyusdAmount == NumOr(data.pyusdAmount, NumOr(data.principalAmount, 0))
        supported == {"US", "GB", "DE", "JP", "IN", "SG"}
        restricted == {"IR", "KP", "CU"}
    IN IF ~(buyerCountry \in supported) \/ ~(sellerCountry \in supported) THEN Passed(FALSE)
       ELSE IF buyerCountry \in restricted \/ sellerCountry \in restricted THEN Passed(FALSE)
       ELSE IF pyusdAmount > RealForte_getCrossBorderLimit(buyerCountry, sellerCountry)
       THEN Passed(FALSE)
       ELSE Passed(TRUE)

RealForte_evaluateRule(ruleId, transactionData) ==
    CASE ruleId = "RULE_01" -> RealForte_evaluateRule01(transactionData)
      [] ruleId = "RULE_02" -> RealForte_evaluateRule02(transactionData)
      [] ruleId = "RULE_13" -> RealForte_evaluateRule13(transactionData)
      [] ruleId = "RULE_14" -> RealForte_evaluateRule14(transactionData)
      [] OTHER -> Passed(TRUE)

\* the `rules` array of evaluateRulesLocally
RealForte_rules ==
    <<"RULE_01", "RULE_02", "RULE_03", "RULE_04", "RULE_05", "RULE_06", "RULE_07",
      "RULE_08", "RULE_09", "RULE_10", "RULE_11", "RULE_12", "RULE_13", "RULE_14">>

\* the for loop of evaluateRulesLocally from rule i on
RECURSIVE RealForte_evaluateRulesLoop(_, _, _)
RealForte_evaluateRulesLoop(i, result, transactionData) ==
    IF i > Len(RealForte_rules) THEN result
    ELSE LET ruleId == RealForte_rules[i]
             ruleResult == RealForte_evaluateRule(ruleId, transactionData)
             next == IF ~ruleResult.threw /\ ruleResult.passed
                     THEN [result EXCEPT !.passedRules = Append(@, ruleId)]
                     ELSE [result EXCEPT !.failedRules = Append(@, ruleId), !.compliant = FALSE]
         IN RealForte_evaluateRulesLoop(i + 1, next, transactionData)

RealForte_evaluateRulesLocally(transactionData) ==
    RealForte_evaluateRulesLoop(1, emptyResult, transactionData)

\* what the fetch of checkRules can do: reject, answer with a status that is not
\* ok, answer ok with a body that is not JSON, or answer ok with a JSON body
FetchFailures == {"fetch rejected", "response not ok", "response.json() rejected"}
CloudBodies ==
    {[compliant |-> TRUE],
     [compliant |-> FALSE, passedRules |-> <<"RULE_01">>, failedRules |-> <<"RULE_02">>,
      warnings |-> <<"RULE_11">>]}
FetchOutcomes ==
    [kind : FetchFailures, body : {[compliant |-> FALSE]}]
        \cup [kind : {"ok"}, body : CloudBodies]

\* `result.<list> || []`
ListOrEmpty(result, field) == IF field \in DOMAIN result THEN result[field] ELSE << >>

\* a catch block that gives up with a denial instead of evaluating locally
RealForte_checkRulesCatchDenies(transactionData) ==
    [compliant |-> FALSE, passedRules |-> << >>, failedRules |-> << >>, warnings |-> << >>]

\* the catch block of checkRules
RealForte_checkRulesCatch(transactionData) == RealForte_evaluateRulesLocally(transactionData)

RealForte_checkRules(forteApiKey, fetch, transactionData) ==
    IF forteApiKey # ""
    THEN IF fetch.kind \in FetchFailures
         THEN RealForte_checkRulesCatch(transactionData)
         ELSE [compliant |-> fetch.body.compliant,
               passedRules |-> ListOrEmpty(fetch.body, "passedRules"),
               failedRules |-> ListOrEmpty(fetch.body, "failedRules"),
               warnings |-> ListOrEmpty(fetch.body, "warnings")]
    ELSE RealForte_evaluateRulesLocally(transactionData)

NoRealCall == [op |-> "none"]

\* a checkRules call of a manager constructed with FORTE_API_KEY = forteApiKey
RealCheckRules(forteApiKey, fetch, transactionData) ==
    /\ realCall' = [op |-> "checkRules", forteApiKey |-> forteApiKey,
                    fetch |-> IF forteApiKey = "" THEN "not called" ELSE fetch.kind,
                    data |-> transactionData,
                    ret |-> RealForte_checkRules(forteApiKey, fetch, transactionData)]
    /\ prevRealCall' = realCall

RealDataSet ==
    [legalEntityIdentifier : {UNDEFINED, LEI_APPLE},
     recipient : {ADDR_CLEAN, ADDR_SANCTIONED},
     pyusdAmount : {500000, 60000000},
     principalAmount : {5000000},
     buyerCountry : {"US", "IR"},
     sellerCountry : {"US"}]

NextReal ==
    \/ \E data \in RealDataSet :
          RealCheckRules("", [kind |-> "not called"], data)
             /\ UNCHANGED <<sdkVars, zkVars, limitVars, chainVars, cloudVars, assetVars, injectorVars>>
    \/ \E fetch \in FetchOutcomes, data \in RealDataSet :
          RealCheckRules("forte-api-key", fetch, data)
             /\ UNCHANGED <<sdkVars, zkVars, limitVars, chainVars, cloudVars, assetVars, injectorVars>>

----------------------------------------------------------------------------

(* CloudForteIntegrationDemo (TypeScript): callForteCloudAPI and its mock  *)
(* responses.                                                              *)

\* a value returned / an error thrown by a TypeScript function
Returned(value) == [threw |-> FALSE, value |-> value]
Thrown(message) == [threw |-> TRUE, value |-> message]

getMockCloudResponse(endpoint, data) ==
    CASE endpoint = "/health" ->
            Returned([status |-> "healthy", version |-> "2.1.0", region |-> "us-east-1",
                      responseTime |-> 89])
      [] endpoint = "/compliance/verify" ->
            IF data.recipient = ADDR_SANCTIONED
            THEN Returned([compliant |-> FALSE,
                           passedRules |-> <<"RULE_01", "RULE_04", "RULE_05", "RULE_06", "RULE_07",
                                             "RULE_08", "RULE_09", "RULE_10", "RULE_11", "RULE_12">>,
                           failedRules |-> <<"RULE_02", "RULE_03">>,
                           warnings |-> << >>,
                           riskScore |-> 850, processingTime |-> 1247,
                           cloudVerification |-> TRUE])
            ELSE IF data.transferAmount < 500
            THEN Returned([compliant |-> FALSE,
                           passedRules |-> <<"RULE_01", "RULE_02", "RULE_03", "RULE_04", "RULE_05",
                                             "RULE_06", "RULE_07", "RULE_08", "RULE_09", "RULE_11",
                                             "RULE_12">>,
                           failedRules |-> <<"RULE_10">>,
                           warnings |-> << >>,
                           riskScore |-> 245, processingTime |-> 892,
                           cloudVerification |-> TRUE])
            ELSE Returned([compliant |-> TRUE,
                           passedRules |-> <<"RULE_01", "RULE_02", "RULE_03", "RULE_04", "RULE_05",
                                             "RULE_06", "RULE_07", "RULE_08", "RULE_09", "RULE_10",
                                             "RULE_11", "RULE_12">>,
                           failedRules |-> << >>,
                           warnings |-> <<"RULE_11">>,
                           riskScore |-> 178, processingTime |-> 1034,
                           cloudVerification |-> TRUE])
      [] endpoint = "/compliance/pyusd-cross-border" ->
            Returned([compliant |-> data.buyerCountry # "IR",
                      passedRules |-> IF data.buyerCountry # "IR" THEN <<"RULE_13", "RULE_14">>
                                      ELSE <<"RULE_13">>,
                      failedRules |-> IF data.buyerCountry = "IR" THEN <<"RULE_14">> ELSE << >>,
                      warnings |-> << >>,
                      riskScore |-> IF data.buyerCountry = "IR" THEN 999 ELSE 156,
                      processingTime |-> 1456,
                      cloudVerification |-> TRUE,
                      crossBorderDetails |->
                          [route |-> <<data.buyerCountry, data.sellerCountry>>,
                           regulatoryStatus |-> IF data.buyerCountry # "IR" THEN "APPROVED"
                                                ELSE "RESTRICTED",
                           maxAmount |-> IF data.buyerCountry = "US" /\ data.sellerCountry = "IN"
                                         THEN 50000000 ELSE 25000000]])
      [] OTHER -> Thrown("Unknown endpoint: " \o endpoint)

\* what `await axios(config)` can do: reject (no connection, timeout, a status
\* outside 2xx) or resolve with the server's response
AxiosOutcomes ==
    {[kind |-> "rejected", data |-> "none"],
     [kind |-> "resolved", data |-> "response.data of the server"]}

callForteCloudAPI(endpoint, method, data, axios) ==
    IF axios.kind = "resolved" THEN Returned(axios.data)
    ELSE getMockCloudResponse(endpoint, data)

NoCloudCall == [op |-> "none"]

CallForteCloudAPI(endpoint, method, data, axios) ==
    LET outcome == callForteCloudAPI(endpoint, method, data, axios)
    IN cloudCall' = [op |-> "callForteCloudAPI", endpoint |-> endpoint, method |-> method,
                     data |-> data, axios |-> axios.kind,
                     threw |-> outcome.threw, ret |-> outcome.value]

CloudEndpoints == {"/health", "/compliance/verify", "/compliance/pyusd-cross-border", "/policies"}
CloudDataSet ==
    [recipient : {ADDR_CLEAN, ADDR_SANCTIONED},
     transferAmount : {100, 1000},
     buyerCountry : {"US", "IR"},
     sellerCountry : {"US", "IN"}]

NextCloud ==
    \/ \E e \in CloudEndpoints, method \in {"GET", "POST"}, data \in CloudDataSet, axios \in AxiosOutcomes :
          CallForteCloudAPI(e, method, data, axios)
             /\ UNCHANGED <<sdkVars, zkVars, limitVars, chainVars, realVars, assetVars, injectorVars>>

----------------------------------------------------------------------------

(* InstitutionalAsset (Solidity): the security token. Amounts are whole    *)
(* tokens (1e18 units of the contract).                                    *)

AssetAccounts == {ALICE, BOB, OUTSIDER, SANCTIONED_ACCOUNT}

\* the asset data the token of the model is deployed with; ALICE is its manager
TokenAssetData ==
    [AssetParams(CORP_APPLE, LEI_APPLE, ALICE, "SUPPLY_CHAIN_INVOICE", DESC_OK, 5000000, 850, 90,
                 "BBB", HASH_OK, ALICE)
        EXCEPT !.totalFractions = 10, !.minimumFractionSize = 5, !.status = "ACTIVE"]

\* the storage after the constructor, every mapping given over AssetAccounts
AssetStorage(constructed) ==
    [assetData |-> constructed.assetData,
     totalSupply |-> constructed.totalSupply,
     balances |-> [a \in AssetAccounts |->
                      IF a \in DOMAIN constructed.balances THEN constructed.balances[a] ELSE 0],
     allowances |-> [a \in AssetAccounts |-> [spender \in AssetAccounts |-> 0]],
     holders |-> constructed.holders,
     isHolder |-> [a \in AssetAccounts |-> \E i \in DOMAIN constructed.holders : constructed.holders[i] = a],
     whitelistedInvestors |-> [a \in AssetAccounts |-> a \in constructed.whitelistedInvestors],
     investorClasses |-> [a \in AssetAccounts |->
                             IF a \in constructed.whitelistedInvestors THEN 2 ELSE 0],
     transfersEnabled |-> TRUE]

onlyManager(storage, sender) == sender = storage.assetData.manager
transfersAllowed(storage) == storage.transfersEnabled

\* a modifier that lets every account through
onlyWhitelistedSkipped(storage, account) == TRUE

onlyWhitelisted(storage, account) == storage.whitelistedInvestors[account]

Asset_isOnSanctionsList(account) == account = SANCTIONED_ACCOUNT
_checkCrossBorderCompliance(from, to) == TRUE

\* holders[i] = holders[holders.length - 1]; holders.pop() for the first i holding holder
_removeHolder(holders, holder) ==
    LET i == CHOOSE k \in DOMAIN holders :
                 holders[k] = holder /\ \A j \in 1..(k - 1) : holders[j] # holder
        swapped == [holders EXCEPT ![i] = holders[Len(holders)]]
    IN SubSeq(swapped, 1, Len(holders) - 1)

\* a _transfer that credits the recipient without debiting the sender
_transferWithoutDebit(storage, from, to, amount) ==
    [reverted |-> FALSE, storage |-> [storage EXCEPT !.balances[to] = @ + amount]]

\* _transfer(from, to, amount): the storage after it, or the revert
_transfer(storage, from, to, amount) ==
    IF from = ZERO_ADDRESS \/ to = ZERO_ADDRESS \/ storage.balances[from] < amount
    THEN [reverted |-> TRUE, storage |-> storage]
    ELSE LET debited == [storage.balances EXCEPT ![from] = @ - amount]
             balances == [debited EXCEPT ![to] = @ + amount]
             holders1 == IF storage.isHolder[to] THEN storage.holders
                         ELSE Append(storage.holders, to)
             isHolder1 == [storage.isHolder EXCEPT ![to] = TRUE]
         IN IF balances[from] = 0
            THEN IF ~isHolder1[from]
                 THEN [reverted |-> TRUE, storage |-> storage]
                 ELSE [reverted |-> FALSE,
                       storage |-> [storage EXCEPT !.balances = balances,
                                                   !.holders = _removeHolder(holders1, from),
                                                   !.isHolder = [isHolder1 EXCEPT ![from] = FALSE]]]
            ELSE [reverted |-> FALSE,
                  storage |-> [storage EXCEPT !.balances = balances,
                                              !.holders = holders1,
                                              !.isHolder = isHolder1]]

AssetCallRecord(op, sender, from, to, amount, reverted) ==
    [op |-> op, sender |-> sender, from |-> from, to |-> to, amount |-> amount,
     reverted |-> reverted]
NoAssetCall == AssetCallRecord("none", ZERO_ADDRESS, ZERO_ADDRESS, ZERO_ADDRESS, 0, FALSE)

\* a call ends with the storage it leaves (the old one when it reverts)
AssetCallEnds(op, sender, from, to, amount, outcome) ==
    /\ tokenStorage' = IF outcome.reverted THEN tokenStorage ELSE outcome.storage
    /\ assetCall' = AssetCallRecord(op, sender, from, to, amount, outcome.reverted)

Asset_transfer(sender, to, amount) ==
    LET accepted == /\ transfersAllowed(tokenStorage)
                    /\ onlyWhitelisted(tokenStorage, sender)
                    /\ onlyWhitelisted(tokenStorage, to)
                    /\ ~Asset_isOnSanctionsList(to)
                    /\ _checkCrossBorderCompliance(sender, to)
                    /\ amount >= tokenStorage.assetData.minimumFractionSize
        outcome == IF accepted THEN _transfer(tokenStorage, sender, to, amount)
                   ELSE [reverted |-> TRUE, storage |-> tokenStorage]
    IN AssetCallEnds("transfer", sender, sender, to, amount, outcome)

Asset_transferFrom(sender, from, to, amount) ==
    LET currentAllowance == tokenStorage.allowances[from][sender]
        accepted == /\ transfersAllowed(tokenStorage)
                    /\ onlyWhitelisted(tokenStorage, from)
                    /\ onlyWhitelisted(tokenStorage, to)
                    /\ currentAllowance >= amount
                    /\ ~Asset_isOnSanctionsList(to)
                    /\ _checkCrossBorderCompliance(from, to)
                    /\ amount >= tokenStorage.assetData.minimumFractionSize
        spent == [tokenStorage EXCEPT !.allowances[from][sender] = currentAllowance - amount]
        outcome == IF accepted THEN _transfer(spent, from, to, amount)
                   ELSE [reverted |-> TRUE, storage |-> tokenStorage]
    IN AssetCallEnds("transferFrom", sender, from, to, amount, outcome)

Asset_approve(sender, spender, amount) ==
    AssetCallEnds("approve", sender, sender, spender, amount,
                  [reverted |-> FALSE,
                   storage |-> [tokenStorage EXCEPT !.allowances[sender][spender] = amount]])

whitelistInvestor(sender, investor, class) ==
    AssetCallEnds("whitelistInvestor", sender, sender, investor, class,
                  IF onlyManager(tokenStorage, sender) /\ class <= 2
                  THEN [reverted |-> FALSE,
                        storage |-> [tokenStorage EXCEPT !.whitelistedInvestors[investor] = TRUE,
                                                  !.investorClasses[investor] = class]]
                  ELSE [reverted |-> TRUE, storage |-> tokenStorage])

emergencyPause(sender) ==
    AssetCallEnds("emergencyPause", sender, sender, sender, 0,
                  IF onlyManager(tokenStorage, sender)
                  THEN [reverted |-> FALSE, storage |-> [tokenStorage EXCEPT !.transfersEnabled = FALSE]]
                  ELSE [reverted |-> TRUE, storage |-> tokenStorage])

resumeTransfers(sender) ==
    AssetCallEnds("resumeTransfers", sender, sender, sender, 0,
                  IF onlyManager(tokenStorage, sender)
                  THEN [reverted |-> FALSE, storage |-> [tokenStorage EXCEPT !.transfersEnabled = TRUE]]
                  ELSE [reverted |-> TRUE, storage |-> tokenStorage])

updateAssetStatus(sender, newStatus) ==
    AssetCallEnds("updateAssetStatus", sender, sender, sender, 0,
                  IF onlyManager(tokenStorage, sender)
                  THEN [reverted |-> FALSE,
                        storage |-> [tokenStorage EXCEPT
                                        !.assetData.status = newStatus,
                                        !.transfersEnabled =
                                            IF newStatus = "DEFAULT" THEN FALSE ELSE @]]
                  ELSE [reverted |-> TRUE, storage |-> tokenStorage])

NextAsset ==
    \/ \E sender \in {ALICE, BOB}, to \in AssetAccounts, amount \in {1, 5} :
          Asset_transfer(sender, to, amount)
             /\ UNCHANGED <<sdkVars, zkVars, limitVars, chainVars, realVars, cloudVars, injectorVars>>
    \/ \E sender \in {BOB}, from \in {ALICE, OUTSIDER}, to \in AssetAccounts, amount \in {1, 5} :
          Asset_transferFrom(sender, from, to, amount)
             /\ UNCHANGED <<sdkVars, zkVars, limitVars, chainVars, realVars, cloudVars, injectorVars>>
    \/ \E sender \in {ALICE, OUTSIDER}, amount \in {0, 5} :
          Asset_approve(sender, BOB, amount)
             /\ UNCHANGED <<sdkVars, zkVars, limitVars, chainVars, realVars, cloudVars, injectorVars>>
    \/ \E sender \in {ALICE, BOB}, investor \in {BOB, SANCTIONED_ACCOUNT}, class \in {1, 3} :
          whitelistInvestor(sender, investor, class)
             /\ UNCHANGED <<sdkVars, zkVars, limitVars, chainVars, realVars, cloudVars, injectorVars>>
    \/ \E sender \in {ALICE, BOB} :
          emergencyPause(sender)
             /\ UNCHANGED <<sdkVars, zkVars, limitVars, chainVars, realVars, cloudVars, injectorVars>>
    \/ \E sender \in {ALICE, BOB} :
          resumeTransfers(sender)
             /\ UNCHANGED <<sdkVars, zkVars, limitVars, chainVars, realVars, cloudVars, injectorVars>>
    \/ \E sender \in {ALICE, BOB}, newStatus \in {"ACTIVE", "DEFAULT", "MATURED"} :
          updateAssetStatus(sender, newStatus)
             /\ UNCHANGED <<sdkVars, zkVars, limitVars, chainVars, realVars, cloudVars, injectorVars>>

----------------------------------------------------------------------------

----------------------------------------------------------------------------
(* ForteModifierInjector and correctForteInjection: the contract file and  *)
(* its backup.  A file's text is modelled by what the injection functions  *)
(* read and write in it: whether it holds the factory's contract           *)
(* definition, the modifiers inserted after the opening brace (newest      *)
(* first), the signature of createInstitutionalAsset, and whether the      *)
(* manual rule checks are still in the text.  The generation timestamp     *)
(* inside a modifier's comment is left out.                                *)

PlainSignature == "external returns"
ModifiedSignature == "external forteCompliance(abi.encode(params)) returns"

\* src/InstitutionalAssetFactory.sol as written by hand
FactoryContract ==
    [contractDefinition |-> TRUE, modifiers |-> << >>,
     signature |-> PlainSignature, ruleChecks |-> TRUE]

\* a Solidity file that does not define InstitutionalAssetFactory
OtherContract ==
    [contractDefinition |-> FALSE, modifiers |-> << >>,
     signature |-> PlainSignature, ruleChecks |-> TRUE]

OriginalContracts == {FactoryContract, OtherContract}

\* most modifiers one file may carry
MaxInjections == 3

\* policies/institutional-rwa-complete.json, and the same policy after two
\* of its rules were taken out
Policies ==
    {[policyName |-> "Institutional RWA Complete Compliance", rules |-> 14],
     [policyName |-> "Institutional RWA Complete Compliance", rules |-> 12]}

\* what reading and parsing the policy file gives
PolicyReads == {Thrown("ENOENT")} \cup {Returned(policy) : policy \in Policies}

generateForteModifier(policy) ==
    [generator |-> "ForteModifierInjector", policyName |-> policy.policyName,
     rules |-> policy.rules, ruleChecks |-> TRUE]

generateCorrectedModifier(policy) ==
    [generator |-> "correctForteInjection", policyName |-> policy.policyName,
     rules |-> policy.rules, ruleChecks |-> TRUE]

\* the first match of the signature pattern is replaced; a signature that
\* already carries the modifier does not match
addModifierToFunctions(contractCode) ==
    IF contractCode.signature = PlainSignature
    THEN [contractCode EXCEPT !.signature = ModifiedSignature]
    ELSE contractCode

addCorrectModifierToFunction(contractCode) == addModifierToFunctions(contractCode)

\* every "// FORTE RULE n: ... require(...);" of the text is replaced, those
\* of the modifiers just inserted included
removeManualRuleChecks(contractCode) ==
    [contractCode EXCEPT
        !.ruleChecks = FALSE,
        !.modifiers = [i \in DOMAIN @ |-> [@[i] EXCEPT !.ruleChecks = FALSE]]]

insertAfterBrace(contractCode, modifier) ==
    [contractCode EXCEPT !.modifiers = <<modifier>> \o @]

insertModifier(contractCode, modifier) ==
    IF ~contractCode.contractDefinition
    THEN Thrown("Could not find InstitutionalAssetFactory contract definition")
    ELSE Returned(removeManualRuleChecks(addModifierToFunctions(
                      insertAfterBrace(contractCode, modifier))))

ContractPath == "src/InstitutionalAssetFactory.sol"
BackupPath == "src/InstitutionalAssetFactory.sol.backup"

existsSync(fs, path) == path \in DOMAIN fs

writeFile(fs, path, content) ==
    [p \in DOMAIN fs \cup {path} |-> IF p = path THEN content ELSE fs[p]]

NoInjectorCall == [op |-> "none", threw |-> FALSE]

InjectorRoom == \A p \in DOMAIN files : Len(files[p].modifiers) < MaxInjections

\* ForteModifierInjector.injectModifiers(contractPath, policyPath)
injectModifiers(policyRead) ==
    /\ InjectorRoom
    /\ LET contractCode == files[ContractPath]
           modifiedContract ==
               insertModifier(contractCode, generateForteModifier(policyRead.value))
       IN IF ~existsSync(files, ContractPath) \/ policyRead.threw \/ modifiedContract.threw
          THEN /\ injectorCall' = [op |-> "injectModifiers", threw |-> TRUE]
               /\ UNCHANGED files
          ELSE /\ files' = writeFile(writeFile(files, BackupPath, contractCode),
                                     ContractPath, modifiedContract.value)
               /\ injectorCall' = [op |-> "injectModifiers", threw |-> FALSE]
    /\ UNCHANGED originalFile

\* ForteModifierInjector.restoreBackup(contractPath)
restoreBackup ==
    /\ IF existsSync(files, BackupPath)
       THEN /\ files' = writeFile(files, ContractPath, files[BackupPath])
            /\ injectorCall' = [op |-> "restoreBackup", threw |-> FALSE]
       ELSE /\ injectorCall' = [op |-> "restoreBackup", threw |-> TRUE]
            /\ UNCHANGED files
    /\ UNCHANGED originalFile

\* correctForteInjection(): the backup is restored first; errors are caught
\* and logged
correctForteInjection(policyRead) ==
    /\ InjectorRoom
    /\ LET restored == IF existsSync(files, BackupPath)
                       THEN writeFile(files, ContractPath, files[BackupPath])
                       ELSE files
           contractCode == restored[ContractPath]
           functionModified ==
               addCorrectModifierToFunction(
                   insertAfterBrace(contractCode, generateCorrectedModifier(policyRead.value)))
       IN IF policyRead.threw \/ ~contractCode.contractDefinition
          THEN files' = restored
          ELSE files' = writeFile(writeFile(restored, BackupPath, contractCode),
                                  ContractPath, functionModified)
    /\ injectorCall' = [op |-> "correctForteInjection", threw |-> FALSE]
    /\ UNCHANGED originalFile

NextInjector ==
    \/ \E policyRead \in PolicyReads :
          /\ injectModifiers(policyRead)
          /\ UNCHANGED <<sdkVars, zkVars, limitVars, chainVars, realVars, cloudVars, assetVars>>
    \/ /\ restoreBackup
       /\ UNCHANGED <<sdkVars, zkVars, limitVars, chainVars, realVars, cloudVars, assetVars>>
    \/ \E policyRead \in PolicyReads :
          /\ correctForteInjection(policyRead)
          /\ UNCHANGED <<sdkVars, zkVars, limitVars, chainVars, realVars, cloudVars, assetVars>>

----------------------------------------------------------------------------
(* Specifications: one per subsystem.                                      *)

NoZkCall == [op |-> "none", ret |-> FALSE]
NoLimitCall == [impl |-> "none", buyer |-> "US", seller |-> "US", ret |-> 0]

\* ZKPretAdapter constructor, sent by DEPLOYER
AdapterConstructed ==
    /\ owner = DEPLOYER
    /\ authorizedVerifiers = [a \in Addresses |-> a = DEPLOYER]
    /\ gleifVerifications = [k \in LeiKeys |-> FALSE]
    /\ bpmnCompliances = [k \in ProcessKeys |-> FALSE]
    /\ actuarialRiskScores = [k \in AssetKeys |-> 0]
    /\ dcsaDocumentVerifications = [k \in DocumentKeys |-> FALSE]
    /\ adapterCall = NoAdapterCall

\* InstitutionalAssetFactory constructor(_zkPretAdapter)
FactoryConstructed ==
    /\ zkPretAdapter = ADAPTER
    /\ institutionalAssets = {}
    /\ leiToAsset = [k \in LeiKeys |-> ZERO_ADDRESS]
    /\ allAssets = << >>
    /\ totalAssetsCreated = 0
    /\ assetContracts = << >>
    /\ factoryCall = NoFactoryCall

\* PyusdCrossBorderFinance constructor(_pyusdToken, _zkPretAdapter); ALICE holds PYUSD
EscrowConstructed ==
    /\ trades = [id \in TradeIds |-> EmptyTrade]
    /\ userTrades = [a \in EscrowAccounts |-> << >>]
    /\ exchangeRates = InitialExchangeRates
    /\ nextTradeId = 0
    /\ pyusdBalances = [a \in EscrowAccounts |-> IF a = ALICE THEN BuyerFunds ELSE 0]
    /\ pyusdAllowances = [a \in EscrowAccounts |-> [spender \in {ESCROW} |-> 0]]
    /\ tradeLog = [id \in TradeIds |-> << >>]
    /\ escrowCall = NoEscrowCall

\* InstitutionalAsset constructor(_assetData, _zkPretAdapter)
AssetConstructed ==
    /\ tokenStorage = AssetStorage(InstitutionalAsset_constructor(TokenAssetData))
    /\ assetCall = NoAssetCall

\* the contracts as deployed
ChainDeployed ==
    AdapterConstructed /\ FactoryConstructed /\ EscrowConstructed /\ AssetConstructed

\* the TypeScript managers and the limit tables before any call
SdkUnused == policyRegistry = << >> /\ txData = << >> /\ lastCall = NoCall
ZkUnused == zkData = << >> /\ zkCall = NoZkCall
LimitsUnused == limitCall = NoLimitCall
RealUnused == realCall = NoRealCall /\ prevRealCall = NoRealCall
CloudUnused == cloudCall = NoCloudCall

\* the hand-written factory contract on disk, never injected, no backup
InjectorUnused ==
    /\ files = [p \in {ContractPath} |-> FactoryContract]
    /\ originalFile = FactoryContract
    /\ injectorCall = NoInjectorCall

InitSdk ==
    /\ policyRegistry = << >>
    /\ txData \in TransactionDataSet
    /\ lastCall = NoCall
    /\ ZkUnused /\ LimitsUnused /\ RealUnused /\ CloudUnused /\ InjectorUnused /\ ChainDeployed

InitZk ==
    /\ zkData \in AssetDataSet
    /\ zkCall = NoZkCall
    /\ SdkUnused /\ LimitsUnused /\ RealUnused /\ CloudUnused /\ InjectorUnused /\ ChainDeployed

InitLimits ==
    /\ limitCall = NoLimitCall
    /\ SdkUnused /\ ZkUnused /\ RealUnused /\ CloudUnused /\ InjectorUnused /\ ChainDeployed

InitChain ==
    /\ ChainDeployed
    /\ SdkUnused /\ ZkUnused /\ LimitsUnused /\ RealUnused /\ CloudUnused /\ InjectorUnused

\* a contract file as its author wrote it, no backup beside it
InitInjector ==
    /\ originalFile \in OriginalContracts
    /\ files = [p \in {ContractPath} |-> originalFile]
    /\ injectorCall = NoInjectorCall
    /\ SdkUnused /\ ZkUnused /\ LimitsUnused /\ RealUnused /\ CloudUnused /\ ChainDeployed

\* a RealForteSDKManager and a CloudForteIntegrationDemo, constructed
InitDemo ==
    /\ RealUnused /\ CloudUnused /\ InjectorUnused
    /\ SdkUnused /\ ZkUnused /\ LimitsUnused /\ ChainDeployed

SpecSdk == InitSdk /\ [][NextSdk]_vars
SpecZk == InitZk /\ [][NextZk]_vars
SpecLimits == InitLimits /\ [][NextLimits]_vars
SpecAdapter == InitChain /\ [][NextAdapter]_vars
SpecFactory == InitChain /\ [][NextFactory]_vars
SpecEscrow == InitChain /\ [][NextEscrow]_vars
SpecReal == InitDemo /\ [][NextReal]_vars
SpecCloud == InitDemo /\ [][NextCloud]_vars
SpecAsset == InitChain /\ [][NextAsset]_vars
SpecInjector == InitInjector /\ [][NextInjector]_vars

----------------------------------------------------------------------------
(* Claims about ForteSDKManager (SpecSdk).                                 *)

InSeq(x, seq) == \E i \in DOMAIN seq : seq[i] = x
Occurrences(x, seq) == Cardinality({i \in DOMAIN seq : seq[i] = x})

FourteenRuleIds ==
    {"RULE_01", "RULE_02", "RULE_03", "RULE_04", "RULE_05", "RULE_06", "RULE_07",
     "RULE_08", "RULE_09", "RULE_10", "RULE_11", "RULE_12", "RULE_13", "RULE_14"}

\* a checkRules call has returned a result
Checked == lastCall.op = "checkRules" /\ ~lastCall.threw
\* ... and the policy it ran is the one registered from the shipped file
CheckedShipped == Checked /\ policyRegistry[lastCall.policyId] = parsePolicy(POLICY_SHIPPED)

\* C1: a check against the shipped policy reports each of RULE_01 .. RULE_14
\* exactly once, in passedRules, failedRules or warnings.
C1_EveryCheckEvaluatesFourteenRules ==
    CheckedShipped =>
        \A id \in FourteenRuleIds :
            Occurrences(id, lastCall.ret.passedRules) + Occurrences(id, lastCall.ret.failedRules)
                + Occurrences(id, lastCall.ret.warnings) = 1

\* C2: a check against the shipped policy of data whose buyer or seller country
\* is restricted is never compliant.
C2_RestrictedCountryNeverCompliant ==
    (CheckedShipped /\ (txData.buyerCountry \in restrictedCountries
                        \/ txData.sellerCountry \in restrictedCountries))
        => ~lastCall.ret.compliant

\* C3: a check against the shipped policy of data whose PYUSD amount is above
\* 50,000,000 or below 1,000,000 lists RULE_13 as failed and is not compliant.
C3_OutOfRangePyusdFailsRule13 ==
    (CheckedShipped /\ txData.pyusdAmount # 0
     /\ (txData.pyusdAmount > 50000000 \/ txData.pyusdAmount < 1000000))
        => (InSeq("RULE_13", lastCall.ret.failedRules) /\ ~lastCall.ret.compliant)

\* what one rule, taken alone, says about the data
RuleDenies(rule, data) ==
    evaluateRule(rule, data).threw \/ (~evaluateRule(rule, data).passed /\ rule.action = "DENY")
RulePasses(rule, data) == ~evaluateRule(rule, data).threw /\ evaluateRule(rule, data).passed

SeqToSet(seq) == {seq[i] : i \in DOMAIN seq}

\* C9: the outcome of every rule of the policy, and the compliant flag, are
\* functions of the submitted data alone: each rule is listed as passed exactly
\* when it passes taken alone, as failed exactly when it denies taken alone, the
\* check is compliant exactly when no rule denies, and the same rules in the
\* opposite order give the same outcome, whatever was called before.
C9_RulesEvaluatedIndependently ==
    Checked =>
        LET rules == policyRegistry[lastCall.policyId].rules
            res == lastCall.ret
            other == checkRules([rules |-> Reverse(rules)], txData)
        IN /\ \A i \in DOMAIN rules :
                /\ InSeq(rules[i].ruleId, res.passedRules) <=> RulePasses(rules[i], txData)
                /\ InSeq(rules[i].ruleId, res.failedRules) <=> RuleDenies(rules[i], txData)
                /\ InSeq(rules[i].ruleId, res.warnings)
                      <=> (~RulePasses(rules[i], txData) /\ ~RuleDenies(rules[i], txData))
           /\ res.compliant <=> (\A i \in DOMAIN rules : ~RuleDenies(rules[i], txData))
           /\ other.compliant = res.compliant
           /\ SeqToSet(other.passedRules) = SeqToSet(res.passedRules)
           /\ SeqToSet(other.failedRules) = SeqToSet(res.failedRules)
           /\ SeqToSet(other.warnings) = SeqToSet(res.warnings)

\* C9 witness: a check of the reordered policy in which two rules deny, one
\* warns and rules judged after them still pass.
C9_Witness ==
    /\ Checked
    /\ policyRegistry[lastCall.policyId] = parsePolicy(POLICY_REORDERED)
    /\ Len(lastCall.ret.failedRules) >= 2
    /\ Len(lastCall.ret.warnings) >= 1
    /\ InSeq("RULE_03", lastCall.ret.passedRules)
    /\ ~lastCall.ret.compliant

----------------------------------------------------------------------------
(* Claims about ZKPretIntegrationManager (SpecZk).                         *)

\* the metadata the claim lists: valid 20-character LEI, verified BPMN
\* description, verified DCSA documents, low-risk interest rate, top rating;
\* no other asset data scores higher, and its asset type adds nothing to the
\* required score
BestMetadata(d) ==
    /\ d.legalEntityIdentifier = LEI_APPLE
    /\ d.assetDescription = DESC_OK
    /\ d.documentHash = HASH_OK
    /\ Len(d.tradeDocuments) > 0
    /\ d.interestRate <= 1500
    /\ d.creditRating = "AAA"
    /\ d.assetType = "SUPPLY_CHAIN_INVOICE"

\* C4: for a principal amount between $5M and $15M, Rule 12 passes on the best
\* metadata: checkMetadataThreshold reports that the score meets the threshold.
C4_InstitutionalSizeMeetsThreshold ==
    (/\ zkCall.op = "checkMetadataThreshold"
     /\ BestMetadata(zkData)
     /\ zkData.principalAmount >= 5000000
     /\ zkData.principalAmount <= 15000000)
        => zkCall.ret.meetsThreshold

----------------------------------------------------------------------------
(* Claims about the cross-border limit tables (SpecLimits).                *)

\* the corridor values of ENHANCEMENT-COMPLETE.md, "Cross-Border Limits"
DocumentedLimit(a, b) ==
    LET pair == {a, b}
    IN CASE pair = {"US", "IN"} -> 50000000
         [] pair = {"US", "GB"} -> 100000000
         [] pair = {"US", "DE"} -> 100000000
         [] pair = {"US", "JP"} -> 75000000
         [] OTHER -> 25000000

LimitOf(impl, b, s) ==
    CASE impl = "ForteSDKManager" -> getCrossBorderLimit(b, s)
      [] impl = "RealForteSDKManager" -> RealForte_getCrossBorderLimit(b, s)
      [] OTHER -> Params_getCrossBorderPYUSDLimit(b, s)

\* C10: in each implementation the limit of a pair of countries is the same in
\* both directions and equals the documented corridor value.
C10_LimitsPerCorridor ==
    limitCall.impl # "none" =>
        /\ limitCall.ret = LimitOf(limitCall.impl, limitCall.seller, limitCall.buyer)
        /\ limitCall.ret = DocumentedLimit(limitCall.buyer, limitCall.seller)


----------------------------------------------------------------------------
(* Claims about the Solidity ZKPretAdapter (SpecAdapter).                  *)

\* C8: the metadata completeness score is a 100-point score: whatever the state
\* of the verification registries, every score that calculateMetadataScore
\* returns has a totalScore between 0 and 100 and each component inside its
\* documented range (GLEIF 0-25, BPMN 0-20, ACTUS 0-20, DCSA 0-15, financial 0-20).
C8_ScoreIsHundredPointScore ==
    (adapterCall.op = "calculateMetadataScore" /\ ~adapterCall.reverted) =>
        LET score == adapterCall.ret
        IN /\ score.gleifScore \in 0..25
           /\ score.bpmnScore \in 0..20
           /\ score.actuarialScore \in 0..20
           /\ score.dcsaScore \in 0..15
           /\ score.financialScore \in 0..20
           /\ score.totalScore \in 0..100

----------------------------------------------------------------------------
(* Claims about InstitutionalAssetFactory (SpecFactory).                   *)

\* C7: the account that creates an asset through the factory becomes its manager:
\* after a successful createInstitutionalAsset or createQuickInstitutionalAsset
\* call sent by account W, the manager of the newly deployed InstitutionalAsset is W.
C7_CreatorBecomesManager ==
    (factoryCall.op \in {"createInstitutionalAsset", "createQuickInstitutionalAsset"}
        /\ ~factoryCall.reverted) =>
        assetContracts[factoryCall.ret].assetData.manager = factoryCall.sender

----------------------------------------------------------------------------
(* Claims about PyusdCrossBorderFinance (SpecEscrow).                      *)

StatusSteps ==
    {<<"INITIATED", "COMPLIANCE_CHECK">>, <<"COMPLIANCE_CHECK", "PYUSD_ESCROWED">>,
     <<"PYUSD_ESCROWED", "SETTLED">>}

StatusCalls == {"executeComplianceCheck", "escrowPYUSD", "executeInstantSettlement"}

\* C5: the trade status is linear: under any sequence of calls by any accounts,
\* the status of each trade either stays or moves one step forward along
\* INITIATED -> COMPLIANCE_CHECK -> PYUSD_ESCROWED -> SETTLED, and it moves exactly
\* when a call for that trade succeeds: one step per successful call, never
\* backward and never skipping a step.
C5_StatusIsLinear ==
    [][\A id \in TradeIds :
          LET before == trades[id].status
              after == trades'[id].status
              succeeded == /\ Len(tradeLog'[id]) = Len(tradeLog[id]) + 1
                           /\ escrowCall'.op \in StatusCalls
                           /\ ~escrowCall'.reverted
                           /\ escrowCall'.tradeId = id
          IN /\ after # before => <<before, after>> \in StatusSteps
             /\ succeeded <=> after # before
             /\ tradeLog'[id] # tradeLog[id] => succeeded]_vars

\* C5 witness: a trade has gone through every step and is SETTLED while another
\* trade is still at an earlier step.
C5_Witness ==
    \E id, other \in TradeIds :
        /\ id < nextTradeId /\ other < nextTradeId
        /\ trades[id].status = "SETTLED"
        /\ trades[other].status = "COMPLIANCE_CHECK"

SucceededCalls(id) == [i \in DOMAIN tradeLog[id] |-> tradeLog[id][i].op]

\* C6: escrow precedes settlement: whenever executeInstantSettlement has succeeded
\* for a trade, executeComplianceCheck and after it escrowPYUSD succeeded for that
\* same trade before, and that escrowPYUSD pulled the trade's pyusdAmount from the buyer.
C6_EscrowPrecedesSettlement ==
    \A id \in TradeIds :
        \A k \in DOMAIN tradeLog[id] :
            tradeLog[id][k].op = "executeInstantSettlement" =>
                \E i, j \in 1..(k - 1) :
                    /\ i < j
                    /\ tradeLog[id][i].op = "executeComplianceCheck"
                    /\ tradeLog[id][j].op = "escrowPYUSD"
                    /\ tradeLog[id][j].from = trades[id].buyer
                    /\ tradeLog[id][j].amount = trades[id].pyusdAmount
                    /\ trades[id].pyusdAmount >= 1000 * 1000000

\* C6 witness: executeInstantSettlement has just succeeded for a trade and the
\* seller holds the 98% paid out of the escrow.
C6_Witness ==
    /\ escrowCall.op = "executeInstantSettlement"
    /\ ~escrowCall.reverted
    /\ pyusdBalances[trades[escrowCall.tradeId].seller] >= 980000000
    /\ SucceededCalls(escrowCall.tradeId) =
          <<"executeComplianceCheck", "escrowPYUSD", "executeInstantSettlement">>

----------------------------------------------------------------------------
(* Fraction counts (Rule 8).                                               *)

\* complianceThresholds.fractionSizes of the shipped policy: dollars per fraction
fractionSizes(assetType) ==
    CASE assetType = "SUPPLY_CHAIN_INVOICE" -> 1000
      [] assetType = "EQUIPMENT_FINANCE" -> 10000
      [] assetType = "TRADE_FINANCE" -> 5000
      [] assetType = "WORKING_CAPITAL" -> 2000
      [] assetType = "COMMERCIAL_REAL_ESTATE" -> 25000
      [] assetType = "CORPORATE_BONDS" -> 1000
      [] assetType = "STRUCTURED_PRODUCTS" -> 50000

DocumentedFractionCount(principalAmount, assetType) ==
    Max(10, Min(10000, principalAmount \div fractionSizes(assetType)))

\* C11: the on-chain calculateOptimalFractions (principal with 18 decimals) and the
\* TypeScript calculateOptimalFractions both return, for the same asset type and
\* dollar principal, the principal divided by the asset type's documented
\* per-fraction size, clamped to [10, 10000].
C11_FractionCountsAgree ==
    (adapterCall.op = "calculateOptimalFractions" /\ ~adapterCall.reverted) =>
        LET p == adapterCall.ret.principalAmount
            t == adapterCall.ret.assetType
        IN /\ adapterCall.ret.params.optimalCount = DocumentedFractionCount(p, t)
           /\ calculateOptimalFractions(p, t).optimalCount = DocumentedFractionCount(p, t)

\* C12: a check against the shipped policy of data whose transferAmount is below
\* 500 lists RULE_10 as failed and is not compliant, whatever the other fields
\* (minimumFractionSize included).
C12_DustTransferFailsRule10 ==
    (CheckedShipped /\ txData.transferAmount < 500)
        => (InSeq("RULE_10", lastCall.ret.failedRules) /\ ~lastCall.ret.compliant)

----------------------------------------------------------------------------
(* RealForteSDKManager: simulation mode and real mode.                     *)

\* a checkRules call of a manager without an API key
Simulation(call) == call.op = "checkRules" /\ call.forteApiKey = ""
\* a checkRules call of a manager with an API key whose cloud call failed
FailedCloud(call) ==
    call.op = "checkRules" /\ call.forteApiKey # "" /\ call.fetch \in FetchFailures

\* C13: for the same transaction data, checkRules returns the same compliant flag
\* and the same passedRules, failedRules and warnings without an API key
\* (simulation) as with an API key when the cloud call fails.
C13_SimulationEqualsFailedCloud ==
    \A sim \in {realCall, prevRealCall} : \A real \in {realCall, prevRealCall} :
        (Simulation(sim) /\ FailedCloud(real) /\ sim.data = real.data) =>
            /\ sim.ret.compliant = real.ret.compliant
            /\ sim.ret.passedRules = real.ret.passedRules
            /\ sim.ret.failedRules = real.ret.failedRules
            /\ sim.ret.warnings = real.ret.warnings

\* C13 witness: a simulated check and a check whose cloud call failed, of the same
\* sanctioned-recipient data, one after the other; both denied on RULE_02.
C13_Witness ==
    /\ Simulation(prevRealCall) /\ FailedCloud(realCall)
    /\ realCall.data = prevRealCall.data
    /\ realCall.data.recipient = ADDR_SANCTIONED
    /\ InSeq("RULE_02", realCall.ret.failedRules)
    /\ ~prevRealCall.ret.compliant

----------------------------------------------------------------------------
(* CloudForteIntegrationDemo: the fallback of callForteCloudAPI.           *)

----------------------------------------------------------------------------
(* InstitutionalAsset: whitelist and pause.                                *)

\* the step is a transfer or transferFrom that succeeded
TransferSucceeds ==
    /\ assetCall'.op \in {"transfer", "transferFrom"}
    /\ ~assetCall'.reverted

\* C15: a transfer or transferFrom succeeds only if both the token sender (from)
\* and the recipient (to) are whitelisted investors at the time of the call.
C15_TransfersOnlyBetweenWhitelisted ==
    [][TransferSucceeds =>
          /\ tokenStorage.whitelistedInvestors[assetCall'.from]
          /\ tokenStorage.whitelistedInvestors[assetCall'.to]]_vars

\* C15 witness: after BOB was whitelisted, a transferFrom sent by BOB has moved
\* tokens of the manager to BOB.
C15_Witness ==
    /\ assetCall.op = "transferFrom" /\ ~assetCall.reverted
    /\ assetCall.from = ALICE /\ assetCall.to = BOB
    /\ tokenStorage.whitelistedInvestors[BOB]
    /\ tokenStorage.balances[BOB] = 5
    /\ tokenStorage.holders = <<ALICE, BOB>>

\* C19: whenever the asset's status is DEFAULT transfers are disabled, and no
\* transfer or transferFrom succeeds while the status is DEFAULT.
C19_NoTransferWhileDefault ==
    [][/\ tokenStorage'.assetData.status = "DEFAULT" => ~tokenStorage'.transfersEnabled
       /\ TransferSucceeds => tokenStorage.assetData.status # "DEFAULT"]_vars

----------------------------------------------------------------------------
(* Sanctioned recipient (Rule 2).                                          *)

\* C16: a check of data whose recipient is the sanctioned address
\* 0x1111111111111111111111111111111111111111 lists RULE_02 in failedRules and is
\* not compliant, whatever the other fields and whichever registered policy.
C16_SanctionedRecipientRejected ==
    (Checked /\ txData.recipient = ADDR_SANCTIONED)
        => (InSeq("RULE_02", lastCall.ret.failedRules) /\ ~lastCall.ret.compliant)

\* C16 witness: a check against the shipped policy of data with the sanctioned
\* recipient in which RULE_02 is the only rule that failed.
C16_Witness ==
    /\ CheckedShipped
    /\ txData.recipient = ADDR_SANCTIONED
    /\ lastCall.ret.failedRules = <<"RULE_02">>
    /\ ~lastCall.ret.compliant

----------------------------------------------------------------------------
(* PyusdCrossBorderFinance: who is paid, what clears a trade, settling     *)
(* once.                                                                   *)

\* the step is an executeInstantSettlement that succeeded
SettlementSucceeds ==
    /\ escrowCall'.op = "executeInstantSettlement"
    /\ ~escrowCall'.reverted
    /\ tradeLog' # tradeLog

\* C17: in a successful executeInstantSettlement none of the three transfers (to
\* the seller, the buyer bank and the seller bank) goes to an address on the
\* sanctions list.
C17_SettlementNeverPaysSanctioned ==
    [][SettlementSucceeds =>
          LET trade == trades[escrowCall'.tradeId]
          IN /\ ~_isOnSanctionsList(trade.seller)
             /\ ~_isOnSanctionsList(trade.buyerBank)
             /\ ~_isOnSanctionsList(trade.sellerBank)
             /\ pyusdBalances'[SANCTIONED_ACCOUNT] = pyusdBalances[SANCTIONED_ACCOUNT]]_vars

\* the step is an executeComplianceCheck that succeeded
ComplianceCheckSucceeds ==
    /\ escrowCall'.op = "executeComplianceCheck"
    /\ ~escrowCall'.reverted
    /\ tradeLog' # tradeLog

\* C18: executeComplianceCheck succeeds for a trade only if the adapter's record
\* of verifyDCSADocuments for the trade's letterOfCreditHash has verified = true.
C18_ClearedOnlyWithVerifiedLetterOfCredit ==
    [][ComplianceCheckSucceeds =>
          dcsaDocumentVerifications[trades[escrowCall'.tradeId].letterOfCreditHash]]_vars

\* C20: once a trade is SETTLED no step changes the trade (its status included)
\* or adds a call to its history, and PYUSD only moves in steps that belong to
\* another trade.
C20_SettledAtMostOnce ==
    [][\A id \in TradeIds :
          trades[id].status = "SETTLED" =>
              /\ trades'[id] = trades[id]
              /\ tradeLog'[id] = tradeLog[id]
              /\ pyusdBalances' # pyusdBalances =>
                    \E other \in TradeIds \ {id} : tradeLog'[other] # tradeLog[other]]_vars

\* C20 witness: a trade is settled, its payout has left the escrow, and a later
\* call for that trade (initiateCrossChainTrade by a participant) has gone through.
C20_Witness ==
    /\ escrowCall.op = "initiateCrossChainTrade"
    /\ ~escrowCall.reverted
    /\ trades[escrowCall.tradeId].status = "SETTLED"
    /\ SucceededCalls(escrowCall.tradeId)[3] = "executeInstantSettlement"
    /\ Len(tradeLog[escrowCall.tradeId]) = 3
    /\ \E other \in TradeIds : trades[other].status = "PYUSD_ESCROWED"

----------------------------------------------------------------------------
(* InstitutionalAsset: supply.                                             *)

RECURSIVE SumOfBalances(_, _)
SumOfBalances(balances, accounts) ==
    IF accounts = {} THEN 0
    ELSE LET a == CHOOSE x \in accounts : TRUE
         IN balances[a] + SumOfBalances(balances, accounts \ {a})

\* C21: after any sequence of transfer, transferFrom, approve, whitelistInvestor,
\* emergencyPause, resumeTransfers and updateAssetStatus calls the balances of all
\* accounts sum to totalSupply, the amount minted to the manager at construction.
C21_SupplyConserved ==
    /\ SumOfBalances(tokenStorage.balances, AssetAccounts) = tokenStorage.totalSupply
    /\ tokenStorage.totalSupply = TokenAssetData.totalFractions

\* C21 witness: a transfer has just split the supply between the manager and BOB.
C21_Witness ==
    /\ assetCall.op = "transfer" /\ ~assetCall.reverted
    /\ assetCall.from = ALICE /\ assetCall.to = BOB
    /\ tokenStorage.balances[ALICE] = 5
    /\ tokenStorage.balances[BOB] = 5

----------------------------------------------------------------------------
(* PyusdCrossBorderFinance: what a settlement pays out.                    *)

\* C22: what executeInstantSettlement pays for a trade (seller payment, buyer-bank
\* fee and seller-bank fee together) is exactly the pyusdAmount that escrowPYUSD
\* took from the buyer, so once no trade is waiting in escrow the contract holds
\* no PYUSD.
C22_SettlementPaysWholeEscrow ==
    /\ \A id \in TradeIds :
          \A k \in DOMAIN tradeLog[id] :
              tradeLog[id][k].op = "executeInstantSettlement" =>
                  \E j \in 1..(k - 1) :
                      /\ tradeLog[id][j].op = "escrowPYUSD"
                      /\ tradeLog[id][j].amount = trades[id].pyusdAmount
                      /\ tradeLog[id][k].amount = tradeLog[id][j].amount
    /\ (\A id \in TradeIds : trades[id].status # "PYUSD_ESCROWED") => pyusdBalances[ESCROW] = 0

----------------------------------------------------------------------------
(* PyusdCrossBorderFinance: who sets exchange rates.                       *)

\* C23: updateExchangeRate changes an entry of the exchange-rate table only when
\* the contract's deployer calls it; a call of any other account leaves every
\* exchange rate unchanged.
C23_ExchangeRatesAdminControlled ==
    [][/\ exchangeRates' # exchangeRates =>
             (escrowCall'.op = "updateExchangeRate" /\ escrowCall'.sender = DEPLOYER)
       /\ (escrowCall'.op = "updateExchangeRate" /\ escrowCall'.sender # DEPLOYER) =>
             exchangeRates' = exchangeRates]_vars

\* C24: whenever restoreBackup succeeds, whatever injectModifiers and
\* correctForteInjection runs came before it, the contract file holds its
\* original, never-injected text again.
C24_RestoreGivesOriginal ==
    (injectorCall.op = "restoreBackup" /\ ~injectorCall.threw)
        => files[ContractPath] = originalFile

=============================================================================
